---- MODULE Spec2Model ----
(***************************************************************************)
(* Turn orchestration and tool dispatch of the voice assistant.            *)
(*                                                                         *)
(*   Spec     the HTTP backend (mx_server.py): concurrent request threads  *)
(*            running handle_console_action over the shared state dict,    *)
(*            the shared conversation and the RecordingController.         *)
(*   SpecCtl  the RecordingController called in any order.                 *)
(*   SpecCli  the blocking command-line loop (main.py).                    *)
(*   SpecExec the ToolExecutor (tool_executor.py) driven through its       *)
(*            public submit() by a caller thread.                          *)
(*   SpecTts  speak_text and stop_speech (audio/text_to_speech.py) called  *)
(*            from concurrent threads.                                     *)
(*   SpecCam  a FrameCache (camera/helpers.py), its refresh loop and a     *)
(*            thread that uses it and falls back to capture_frame.         *)
(*   SpecRec  one ContinuousRecorder (audio/recorder.py) step by step:     *)
(*            the calling thread, the writer thread and the audio callback.*)
(*   SpecShut the ToolExecutor with a caller of shutdown() besides the     *)
(*            caller of submit().                                          *)
(*   SpecDirect a ContinuousRecorder called by two threads directly.       *)
(*   SpecSeg  the segmentation calls of a plan in ToolExecutor and in the  *)
(*            validator's dispatcher.                                      *)
(*   SpecUi   the ZeroMQ frame listener and _get_ui_frame_bytes            *)
(*   SpecPcm  one run of _stream_pcm_to_device, byte by byte, with no stop. *)
(*   SpecPlan a ToolCall of an AssistantPlan (assistant_plan.py) parsed    *)
(*            from the model's answer and validated.                       *)
(***************************************************************************)
EXTENDS Integers, Sequences, FiniteSets, TLC

(* ------------------------------ bounds -------------------------------- *)
\* request threads of the server's thread pool
NumHandlers == 2
\* recordings (temporary audio files) created in one run
MaxRecordings == 2
\* tool calls in one plan, and in all the plans handed to the executor
MaxCalls == 2

\* jobs submitted to the ToolExecutor in one run
MaxJobs == 2
\* audio chunks of one synthesized response
MaxChunks == 2

\* threads that call speak_text
NumSpeakers == 2
\* speak_text calls one thread makes in one run
MaxSpeaks == 2

\* seconds the clock runs in one run
MaxTime == 3
\* chunks in one speech stream, and bytes in one chunk
MaxPcmChunks == 4
MaxChunkLen == 3

\* Python's None where a path is expected
NoPath == 0

\* no thread holds the lock
NoThread == 0

\* get_latest_frame's max_age=None, and _latest_frame = None
NoMaxAge == -1
NoFrame == 0
\* self._thread.join(timeout=1.0)
JoinTimeout == 1

Handlers == 1..NumHandlers
Speakers == 1..NumSpeakers

Tools == {"segmentation", "web_search", "ifixit_tutorials"}
Keys == {"q1", "q2"}

\* A validated ToolCall: the tool tag and the natural key of the call
\* (input["query"] or input["prompt"]).
Calls == [tool : Tools, key : Keys]

RECURSIVE SeqsUpTo(_, _)
SeqsUpTo(S, n) ==
    IF n = 0 THEN {<<>>}
    ELSE LET shorter == SeqsUpTo(S, n - 1)
         IN shorter \cup {Append(s, x) : s \in {t \in shorter : Len(t) = n - 1}, x \in S}

\* AssistantPlan.tool_calls, of n calls at most
ToolCallLists(n) == SeqsUpTo(Calls, n)
\* the same lists up to the keys, which the HTTP dispatch never reads
ToolCallListsOneKey == SeqsUpTo([tool : Tools, key : {"q1"}], MaxCalls)

VARIABLES
    state,            \* mx_server.state: mode, talk_recording_active, tool fields
    conversation,     \* the shared conversation log
    tool_executor,    \* module global: "none" or "ready"
    recorder,         \* ContinuousRecorder fields of talk_recorder
    current_path,     \* RecordingController._current_path
    files,            \* audio files present on disk
    nextPath,         \* next fresh temporary file name
    pc,               \* per request thread: position in handle_console_action
    path,             \* per request thread: local `path`
    plan,             \* per request thread: local `plan` (FALSE: None)
    result,           \* per request thread: the answer being built
    response,         \* the answer the server sent last
    convBefore,       \* per request thread: the log when its user entry was appended
    jobs,             \* coroutines handed to the ToolExecutor loop, in submission order
    cli_pc,           \* main.py: position of the loop in main()
    audio_path,       \* main.py: local `audio_path`
    playback,         \* main.py: the speak_text call being played, chunk by chunk
    stop_tts_event,   \* text_to_speech._stop_tts_event
    tts_lock,         \* text_to_speech._tts_lock: its holder, NoThread when free
    speak,            \* per speaker thread: its speak_text call
    frame_cache,      \* the FrameCache object's fields
    run,              \* the FrameCache thread: its position in _run
    now,              \* time(), in seconds
    client,           \* the thread using the FrameCache: its call in progress
    rec_call,         \* the thread inside talk_recorder.start() / stop()
    writer,           \* the recorder's writer thread
    audio,            \* the session's queue: chunks waiting, chunks put in all
    executor_loop,    \* the ToolExecutor's loop thread and the shutdown() call
    tool_call,        \* a ToolCall of a plan on its way through validation
    pcm,              \* one run of _stream_pcm_to_device over its byte chunks
    stop_requested,   \* threads in speak_text on which stop_speech() was called
    ui_frame,         \* _ui_frame: the UI's latest frame and its arrival time
    ui_call,          \* the listener thread and a caller of _get_ui_frame_bytes
    direct,           \* a ContinuousRecorder called by two threads without the controller
    seg               \* a plan's segmentation calls on their way through both dispatchers

cliVars == <<cli_pc, audio_path, playback>>

\* the front ends and the executor
coreVars == <<state, conversation, tool_executor, recorder, current_path, files,
              nextPath, pc, path, plan, result, response, convBefore, jobs,
              cli_pc, audio_path, playback>>

\* the audio output
ttsVars == <<stop_tts_event, tts_lock, speak>>

\* the camera
camVars == <<frame_cache, run, now, client>>

\* the recorder's threads
recVars == <<rec_call, writer, audio>>

\* the executor's loop
exeVars == <<executor_loop>>

\* the plan being parsed
planVars == <<tool_call>>

pcmVars == <<pcm>>

stopVars == <<stop_requested>>

uiVars == <<ui_frame>>

uiCallVars == <<ui_call>>

directVars == <<direct>>

segVars == <<seg>>

auxVars == <<ttsVars, camVars, recVars, exeVars, planVars, pcmVars, stopVars, uiVars, uiCallVars, directVars, segVars>>

vars == <<coreVars, ttsVars, camVars, recVars, exeVars, planVars, pcmVars, stopVars, uiVars, uiCallVars, directVars, segVars>>

(* ------------------------- audio/recorder.py --------------------------- *)
RecorderIdle(stopEvent) ==
    [stream |-> FALSE, writer |-> FALSE, destination |-> NoPath,
     data_queue |-> FALSE, stop_event |-> stopEvent]

\* ContinuousRecorder.start: dest is the path _resolve_destination returns,
\* deviceOk whether sd.InputStream(...).start() succeeds.
RecorderStart(r, dest, deviceOk) ==
    IF r.stream
    THEN [rec |-> r, exc |-> "Recording already in progress", ret |-> NoPath]
    ELSE IF deviceOk
    THEN [rec |-> [stream |-> TRUE, writer |-> TRUE, destination |-> dest,
                   data_queue |-> TRUE, stop_event |-> FALSE],
          exc |-> "", ret |-> dest]
    ELSE \* except: stop_event.set(); writer.join(); _cleanup_failed_start(); raise
         [rec |-> RecorderIdle(TRUE), exc |-> "device unavailable", ret |-> NoPath]

\* ContinuousRecorder.stop
RecorderStop(r) ==
    IF ~r.stream \/ r.destination = NoPath
    THEN [rec |-> r, exc |-> "No recording in progress", ret |-> NoPath]
    ELSE [rec |-> RecorderIdle(TRUE), exc |-> "", ret |-> r.destination]

(* ------------------ mx_server.py: RecordingController ------------------ *)
\* a start that takes the device over from the session in progress
ControllerStartTakesOver(r, cp, dest, deviceOk) ==
    LET o == RecorderStart(RecorderIdle(FALSE), dest, deviceOk)
    IN [rec |-> o.rec, cp |-> IF o.exc = "" THEN o.ret ELSE cp,
        exc |-> o.exc, ret |-> o.ret]

\* Both methods run entirely under RecordingController._lock.
ControllerStart(r, cp, dest, deviceOk) ==
    IF r.stream
    THEN [rec |-> r, cp |-> cp, exc |-> "Recording already in progress", ret |-> NoPath]
    ELSE LET o == RecorderStart(r, dest, deviceOk)
         IN [rec |-> o.rec, cp |-> IF o.exc = "" THEN o.ret ELSE cp,
             exc |-> o.exc, ret |-> o.ret]

ControllerStop(r, cp) ==
    IF ~r.stream \/ cp = NoPath
    THEN [rec |-> r, cp |-> cp, exc |-> "No recording in progress", ret |-> NoPath]
    ELSE LET o == RecorderStop(r)
         IN [rec |-> o.rec, cp |-> IF o.exc = "" THEN NoPath ELSE cp,
             exc |-> o.exc, ret |-> o.ret]

(* --------------------- tool_executor.py: submit ------------------------ *)
\* def submit(self, plan, screenshot_path=None, status_callback=None)
SubmitParams == <<"plan", "screenshot_path", "status_callback">>

\* Python's binding of a call's arguments to a signature: positional
\* arguments fill the parameters from the left, then each keyword must name
\* a parameter that is still unbound.
BindCall(params, nPositional, keywords) ==
    IF nPositional > Len(params) THEN "TypeError"
    ELSE IF \E i \in 1..nPositional : params[i] \in keywords THEN "TypeError"
    ELSE IF \E k \in keywords : \A i \in 1..Len(params) : params[i] # k THEN "TypeError"
    ELSE "ok"

\* What a call's input holds of image_path and base64_image (both optional
\* in Sam3Input; calls of the other tools carry neither).
ImageInputs == {"none", "path", "inline", "both"}

\* a request body that carries every image source the call was given
SegmentationPayloadAll(input, hasFallback) ==
    (IF input \in {"path", "both"} \/ hasFallback THEN {"image_path"} ELSE {})
       \cup (IF input \in {"inline", "both"} THEN {"base64_image"} ELSE {})

\* The image keys of the request body _run_segmentation builds, called with
\* img_path = call.input.get("image_path") or screenshot_path and
\* b64_img = call.input.get("base64_image"): the path if there is one, else
\* the inline image, else nothing.
SegmentationPayload(input, hasFallback) ==
    IF input \in {"path", "both"} \/ hasFallback THEN {"image_path"}
    ELSE IF input = "inline" THEN {"base64_image"}
    ELSE {}

\* a tool task in its three stages; kind and val describe what it returned
\* (a list or a dict) or the exception it raised
PendingTask == [st |-> "pending", kind |-> "", val |-> ""]
RunningTask == [st |-> "running", kind |-> "", val |-> ""]
Returned(kind, val) == [st |-> "returned", kind |-> kind, val |-> val]
Raised(exc) == [st |-> "raised", kind |-> "", val |-> exc]

\* a submit that starts the tool tasks before it returns
NewJobStarted(calls, hasImage, hasCallback) ==
    [calls |-> calls, image |-> hasImage, callback |-> hasCallback,
     pc |-> "gathering", tasks |-> [i \in 1..Len(calls) |-> RunningTask],
     log |-> <<>>, collected |-> <<>>, requests |-> {}]

\* The coroutine object _execute_plan(plan, screenshot_path, status_callback)
\* as run_coroutine_threadsafe queues it: nothing of its body has run.
NewJob(calls, hasImage, hasCallback) ==
    [calls |-> calls, image |-> hasImage, callback |-> hasCallback,
     pc |-> "scheduled", tasks |-> [i \in 1..Len(calls) |-> PendingTask],
     log |-> <<>>, collected |-> <<>>, requests |-> {}]

\* whether the call binds the named parameter of submit
Binds(name, position, nPositional, keywords) ==
    nPositional >= position \/ name \in keywords

\* ToolExecutor.submit, reached with the given argument shape.
Submit(js, calls, nPositional, keywords) ==
    IF BindCall(SubmitParams, nPositional, keywords) = "ok"
    THEN [jobs |-> Append(js, NewJob(calls,
                                     Binds("screenshot_path", 2, nPositional, keywords),
                                     Binds("status_callback", 3, nPositional, keywords))),
          exc |-> ""]
    ELSE [jobs |-> js, exc |-> "TypeError"]

(* ------------------ mx_server.py: tool activity state ------------------ *)
RunningMessage(tool) == <<"Running", tool>>          \* f"Running {call.tool}..."
FinishedMessage == <<"Tools finished.">>
QueuedMessage(n) == <<"Running", n, "tool(s)...">>   \* f"Running {n} tool(s)..."
UnavailableMessage == <<"Tool executor unavailable">>
NoMessage == <<>>                                     \* None

\* message.lower().startswith("running")
StartsWithRunning(m) == Len(m) > 0 /\ m[1] = "Running"
\* "finished" in lowered or "failed" in lowered
MentionsFinishedOrFailed(m) == m = FinishedMessage

ToolNames(calls) == [i \in 1..Len(calls) |-> calls[i].tool]

\* _reset_tool_state(clear_status)
ResetToolState(st, clearStatus) ==
    [st EXCEPT !.tools_active = FALSE, !.active_tools = <<>>,
               !.last_tool_status = IF clearStatus THEN NoMessage ELSE @]

\* _handle_tool_status_update(message)
HandleToolStatusUpdate(st, m) ==
    LET st1 == [st EXCEPT !.last_tool_status = m]
    IN IF StartsWithRunning(m) THEN [st1 EXCEPT !.tools_active = TRUE]
       ELSE IF MentionsFinishedOrFailed(m)
       THEN [st1 EXCEPT !.tools_active = FALSE, !.active_tools = <<>>]
       ELSE st1

\* _dispatch_tool_plan(plan, screenshot_path, screenshot_base64): the call at
\* its end passes three positional arguments and status_callback= by keyword.
DispatchToolPlan(st, js, calls, executor) ==
    IF calls = <<>>
    THEN [state |-> ResetToolState(st, TRUE), jobs |-> js, exc |-> ""]
    ELSE LET st1 == [st EXCEPT !.tools_active = TRUE,
                               !.active_tools = ToolNames(calls),
                               !.last_tool_status = QueuedMessage(Len(calls))]
         IN IF executor = "none"
            THEN [state |-> [st1 EXCEPT !.tools_active = FALSE,
                                        !.last_tool_status = UnavailableMessage,
                                        !.active_tools = <<>>],
                  jobs |-> js, exc |-> ""]
            ELSE LET o == Submit(js, calls, 3, {"status_callback"})
                 IN [state |-> st1, jobs |-> o.jobs, exc |-> o.exc]

(* ------------------- mx_server.py: the conversation -------------------- *)
SystemEntry == [role |-> "system", turn |-> NoPath]
UserEntry(t) == [role |-> "user", turn |-> t]
AssistantEntry(t) == [role |-> "assistant", turn |-> t]

\* a pop that removes nothing
PopKeepsAll(log) == log

\* list.pop()
Pop(log) == SubSeq(log, 1, Len(log) - 1)

\* an unlink that leaves the file
UnlinkSkipped(fs, p) == fs

\* Path(p).unlink(missing_ok=True) in the finally of the transcription
Unlink(fs, p) == fs \ {p}

(* --------------- mx_server.py: handle_console_action ------------------- *)
NoResult == [status |-> "none", error |-> "", plan_error |-> FALSE, tts_error |-> FALSE,
             tools_active |-> FALSE, active_tools |-> <<>>,
             last_tool_status |-> NoMessage]
Error(msg) == [NoResult EXCEPT !.status = "error", !.error = msg]
Ok == [NoResult EXCEPT !.status = "ok"]

\* positions inside _process_recording
ProcessingPcs == {"transcribe", "capture", "plan", "stream", "respond"}

InitState ==
    [mode |-> "idle", talk_recording_active |-> FALSE, tools_active |-> FALSE,
     active_tools |-> <<>>, last_tool_status |-> NoMessage]

NoPlayback == [active |-> FALSE, chunks |-> 0]

\* FrameCache.__init__
NewFrameCache ==
    [latest_frame |-> NoFrame, latest_ts |-> 0, stop |-> FALSE, ready |-> FALSE,
     thread |-> "none", error |-> FALSE]

\* no _run is executing; device tells whether a cv2.VideoCapture of the
\* loop is open, published whether the loop has stored a frame
NotRunning == [pc |-> "off", device |-> FALSE, published |-> FALSE]

\* the client thread between two calls: what the last call gave and, after
\* a get_latest_frame, its max_age and the age it found the cached frame at
NoCall(ret, maxAge, age) ==
    [pc |-> "idle", op |-> "none", max_age |-> maxAge, frame |-> NoFrame, ts |-> 0,
     deadline |-> 0, ret |-> ret, age |-> age]

\* no thread is inside the recorder; ret and exc are what the last call
\* returned or raised
NoRecCall(ret, exc) == [pc |-> "idle", ret |-> ret, exc |-> exc]
\* no writer thread runs; path is the file of the last one, written the
\* chunks it wrote to it
NoWriter == [pc |-> "off", path |-> NoPath, written |-> 0]
\* queue.Queue(): nothing waiting, nothing put yet
NoAudio == [queue |-> 0, put |-> 0]

\* _stream_pcm_to_device with both streams open: nothing received, nothing
\* written, leftover = b""
NoPcm == [pc |-> "iter", chunks |-> 0, received |-> 0, leftover |-> <<>>, writes |-> <<>>]

\* no tool call is being parsed; a dict is a function on its keys
NoDict == [f \in {} |-> 0]
NoToolCall == [st |-> "none", tool |-> "", raw |-> NoDict, input |-> NoDict]

\* ToolExecutor.__init__: the loop thread is in run_forever. stop tells
\* whether loop.stop is among the loop's callbacks, queued how many jobs were
\* handed to the loop before it; call and waited are the shutdown() call and
\* the seconds its join has waited.
NewExecutor == [loop |-> "running", stop |-> FALSE, queued |-> 0,
                call |-> "none", waited |-> 0]

\* a thread outside speak_text; last tells how its latest call ended
\* no plan has been handed to the dispatchers
NoSegRun == [st |-> "none", calls |-> <<>>, screenshot |-> FALSE,
             executor |-> <<>>, validator |-> <<>>]

\* the threads that call the recorder directly
RecorderThreads == {1, 2}

\* a thread outside the recorder: its last call, what it returned or raised,
\* and the session whose stream it started or stopped
NoDirectCall(op, ret, exc, session) ==
    [pc |-> "idle", op |-> op, ret |-> ret, exc |-> exc, session |-> session,
     joining |-> NoPath]

\* ContinuousRecorder.__init__, the fields named by the session that set
\* them; writers is the state of each session's writer thread
NewRecorder ==
    [lock |-> NoThread, stream |-> NoPath, destination |-> NoPath, data_queue |-> NoPath,
     writer |-> NoPath, stop_event |-> FALSE, next |-> 1,
     writers |-> [n \in 1..(MaxRecordings + 1) |-> "none"],
     th |-> [t \in RecorderThreads |-> NoDirectCall("none", NoPath, "", NoPath)]]

\* _ui_frame = {"data": None, "ts": 0.0}
NewUiFrame == [data |-> NoFrame, ts |-> 0]

\* the listener polls its socket and nobody is in _get_ui_frame_bytes
NoUiCall == [listener |-> "poll", pc |-> "idle", max_age |-> 0, data |-> NoFrame,
             ts |-> 0, ret |-> NoFrame, at |-> 0]

\* no stop_speech() has been called on a playback in progress
NoStops == {}

NotSpeaking(calls, last) ==
    [pc |-> "idle", calls |-> calls, stream |-> FALSE, got |-> 0, leftover |-> 0,
     playable |-> 0, written |-> 0, late |-> 0, last |-> last]

\* everything but the conversation, which the two front ends set up apart
InitRest ==
    /\ state = InitState
    /\ tool_executor = "ready"
    /\ recorder = RecorderIdle(FALSE)
    /\ current_path = NoPath
    /\ files = {}
    /\ nextPath = 1
    /\ pc = [h \in Handlers |-> "idle"]
    /\ path = [h \in Handlers |-> NoPath]
    /\ plan = [h \in Handlers |-> FALSE]
    /\ result = [h \in Handlers |-> NoResult]
    /\ response = NoResult
    /\ convBefore = [h \in Handlers |-> <<>>]
    /\ jobs = <<>>
    /\ cli_pc = "record"
    /\ audio_path = NoPath
    /\ playback = NoPlayback
    /\ stop_tts_event = FALSE
    /\ tts_lock = NoThread
    /\ speak = [s \in Speakers |-> NotSpeaking(0, "none")]
    /\ frame_cache = NewFrameCache
    /\ run = NotRunning
    /\ now = 0
    /\ client = NoCall("none", NoMaxAge, 0)
    /\ rec_call = NoRecCall(NoPath, "")
    /\ writer = NoWriter
    /\ audio = NoAudio
    /\ executor_loop = NewExecutor
    /\ tool_call = NoToolCall
    /\ pcm = NoPcm
    /\ stop_requested = NoStops
    /\ ui_frame = NewUiFrame
    /\ ui_call = NoUiCall
    /\ direct = NewRecorder
    /\ seg = NoSegRun

\* mx_server.py: the conversation starts with the system prompt
Init ==
    /\ conversation = <<SystemEntry>>
    /\ InitRest

\* The handler ends with answer r (status "raised": an exception left it);
\* its locals are gone.
Return(h, r) ==
    /\ pc' = [pc EXCEPT ![h] = "idle"]
    /\ response' = r
    /\ result' = [result EXCEPT ![h] = NoResult]
    /\ UNCHANGED <<cliVars, auxVars>>
    /\ path' = [path EXCEPT ![h] = NoPath]
    /\ plan' = [plan EXCEPT ![h] = FALSE]
    /\ convBefore' = [convBefore EXCEPT ![h] = <<>>]

\* back in handle_console_action after _process_recording:
\* state["mode"] = "idle"; state["talk_recording_active"] = False
FinalizeState(st) == [st EXCEPT !.mode = "idle", !.talk_recording_active = FALSE]

\* a return that answers with r and leaves the session as the turn had it
FinishLeavesSession(h, st, r) ==
    /\ state' = st
    /\ Return(h, r)

\* _process_recording returns r: the handler resets the session and answers
\* with r. st is the state dict as the turn's last step leaves it.
Finish(h, st, r) ==
    /\ state' = FinalizeState(st)
    /\ Return(h, r)

\* The thread moves on inside the handler with the processing result r.
Goto(h, label, r) ==
    /\ pc' = [pc EXCEPT ![h] = label]
    /\ result' = [result EXCEPT ![h] = r]
    /\ UNCHANGED <<response, cliVars, auxVars>>


\* A request arrives and the pool hands it to its first free thread:
\* stop_speech(), then the branch on state["talk_recording_active"]
\* (action "talk" or "stop").
Request(h, action) ==
    /\ pc[h] = "idle"
    /\ \A g \in Handlers : g < h => pc[g] # "idle"
    /\ IF state.talk_recording_active
       THEN /\ Goto(h, "stop", NoResult)
            /\ UNCHANGED <<path, plan, convBefore>>
       ELSE IF action = "talk"
       THEN /\ nextPath + Cardinality({g \in Handlers : pc[g] = "start"}) <= MaxRecordings
            /\ Goto(h, "start", NoResult)
            /\ UNCHANGED <<path, plan, convBefore>>
       ELSE Return(h, Ok)      \* {"status": "ok", "message": "Jarvis stopped."}
    /\ UNCHANGED <<state, conversation, tool_executor, recorder, current_path,
                   files, nextPath, jobs>>

\* path = talk_recorder.start()
StartRecording(h, deviceOk) ==
    /\ pc[h] = "start"
    /\ LET o == ControllerStart(recorder, current_path, nextPath, deviceOk)
       IN /\ recorder' = o.rec
          /\ current_path' = o.cp
          /\ IF o.exc = ""
             THEN /\ Goto(h, "set_talking", NoResult)
                  /\ path' = [path EXCEPT ![h] = o.ret]
                  /\ files' = files \cup {o.ret}
                  /\ nextPath' = nextPath + 1
                  /\ UNCHANGED <<plan, convBefore>>
             ELSE /\ Return(h, Error(o.exc))
                  /\ nextPath' = IF o.exc = "Recording already in progress"
                                 THEN nextPath ELSE nextPath + 1
                  /\ UNCHANGED files
    /\ UNCHANGED <<state, conversation, tool_executor, jobs>>

\* state["mode"] = "talking"; state["talk_recording_active"] = True; return
SetTalking(h) ==
    /\ pc[h] = "set_talking"
    /\ state' = [state EXCEPT !.mode = "talking", !.talk_recording_active = TRUE]
    /\ Return(h, Ok)
    /\ UNCHANGED <<conversation, tool_executor, recorder, current_path, files,
                   nextPath, jobs>>

\* path = talk_recorder.stop(); state["mode"] = "processing"
StopRecording(h) ==
    /\ pc[h] = "stop"
    /\ LET o == ControllerStop(recorder, current_path)
       IN /\ recorder' = o.rec
          /\ current_path' = o.cp
          /\ IF o.exc = ""
             THEN /\ Goto(h, "transcribe", NoResult)
                  /\ path' = [path EXCEPT ![h] = o.ret]
                  /\ state' = [state EXCEPT !.mode = "processing"]
                  /\ UNCHANGED <<plan, convBefore>>
             ELSE /\ Return(h, Error(o.exc))
                  /\ UNCHANGED state
    /\ UNCHANGED <<conversation, tool_executor, files, nextPath, jobs>>

(* ----------------- mx_server.py: _process_recording -------------------- *)
SilenceMessage == "Silence detected or unable to transcribe."
ExitMessage == "Exit phrase detected."

\* transcribe_file_sync(...).strip(), the finally that unlinks the audio
\* file, then the empty-transcript and exit-phrase returns.
Transcribe(h, outcome) ==
    /\ pc[h] = "transcribe"
    /\ files' = Unlink(files, path[h])
    /\ CASE outcome = "text" ->
              /\ Goto(h, "capture", NoResult)
              /\ UNCHANGED <<state, path, plan, convBefore>>
         [] outcome = "raise" -> Finish(h, state, Error("Transcription failed"))
         [] outcome = "empty" ->
              Finish(h, state, Error(SilenceMessage))
         [] OTHER -> Finish(h, state, [Ok EXCEPT !.error = ExitMessage])
    /\ UNCHANGED <<conversation, tool_executor, recorder, current_path,
                   nextPath, jobs>>

\* fetch_frame_with_context(transcript), then conversation.append(user entry)
Capture(h, frameOk) ==
    /\ pc[h] = "capture"
    /\ IF frameOk
       THEN /\ conversation' = Append(conversation, UserEntry(path[h]))
            /\ convBefore' = [convBefore EXCEPT ![h] = conversation]
            /\ Goto(h, "plan", NoResult)
            /\ UNCHANGED <<state, path, plan>>
       ELSE /\ Finish(h, state, Error("Camera capture failed"))
            /\ UNCHANGED conversation
    /\ UNCHANGED <<tool_executor, recorder, current_path, files, nextPath, jobs>>

\* `if not assistant_text: conversation.pop(); return error`, else the
\* assistant entry is appended; planned tells whether `plan` is set.
ConcludeText(h, hasText, planned) ==
    /\ IF hasText
       THEN /\ conversation' = Append(conversation, AssistantEntry(path[h]))
            /\ plan' = [plan EXCEPT ![h] = planned]
            /\ convBefore' = [convBefore EXCEPT ![h] = <<>>]
            /\ Goto(h, "respond", result[h])
            /\ UNCHANGED <<state, path>>
       ELSE /\ conversation' = Pop(conversation)
            /\ Finish(h, state, Error("Assistant returned no text output."))

\* plan = _request_assistant_plan(conversation): it raises, or returns a plan
\* whose voice line is empty or not.
RequestPlan(h, outcome) ==
    /\ pc[h] = "plan"
    /\ IF outcome = "raise"
       THEN /\ Goto(h, "stream", [NoResult EXCEPT !.plan_error = TRUE])
            /\ UNCHANGED <<state, conversation, path, plan, convBefore>>
       ELSE ConcludeText(h, outcome = "text", TRUE)
    /\ UNCHANGED <<tool_executor, recorder, current_path, files, nextPath, jobs>>

\* the except branch: assistant_text = _stream_assistant_text(conversation)
StreamText(h, outcome) ==
    /\ pc[h] = "stream"
    /\ IF outcome = "raise"
       THEN /\ conversation' = Pop(conversation)
            /\ Finish(h, state, Error("Assistant streaming failed"))
       ELSE ConcludeText(h, outcome = "text", FALSE)
    /\ UNCHANGED <<tool_executor, recorder, current_path, files, nextPath, jobs>>

\* try: _play_response_async(assistant_text) except: tts_error = str(exc);
\* `if plan: _dispatch_tool_plan(...)`, then the result dict is built from
\* state; an exception of the dispatch leaves the handler. threadOk tells
\* whether the playback thread could be started; calls is plan.tool_calls,
\* first read here (none without a plan).
Respond(h, threadOk, calls) ==
    /\ pc[h] = "respond"
    /\ IF plan[h] THEN TRUE ELSE calls = <<>>
    /\ LET o == IF plan[h]
                THEN DispatchToolPlan(state, jobs, calls, tool_executor)
                ELSE [state |-> state, jobs |-> jobs, exc |-> ""]
       IN /\ jobs' = o.jobs
          /\ IF o.exc = ""
             THEN Finish(h, o.state,
                         [result[h] EXCEPT !.status = "ok", !.tts_error = ~threadOk,
                                           !.tools_active = o.state.tools_active,
                                           !.active_tools = o.state.active_tools,
                                           !.last_tool_status = o.state.last_tool_status])
             ELSE /\ state' = o.state
                  /\ Return(h, [NoResult EXCEPT !.status = "raised", !.error = o.exc])
    /\ UNCHANGED <<conversation, tool_executor, recorder, current_path, files, nextPath>>

Next ==
    \/ \E h \in Handlers, a \in {"talk", "stop"} : Request(h, a)
    \/ \E h \in Handlers, ok \in BOOLEAN : StartRecording(h, ok)
    \/ \E h \in Handlers : SetTalking(h)
    \/ \E h \in Handlers : StopRecording(h)
    \/ \E h \in Handlers, o \in {"raise", "empty", "exit", "text"} : Transcribe(h, o)
    \/ \E h \in Handlers, ok \in BOOLEAN : Capture(h, ok)
    \/ \E h \in Handlers, o \in {"raise", "empty", "text"} : RequestPlan(h, o)
    \/ \E h \in Handlers, o \in {"raise", "empty", "text"} : StreamText(h, o)
    \/ \E h \in Handlers, ok \in BOOLEAN, c \in ToolCallListsOneKey : Respond(h, ok, c)

Spec == Init /\ [][Next]_vars

(* ------------------------- properties of Spec -------------------------- *)
\* C1: every step with which a request thread leaves a talk/stop turn
\* (from any position of _process_recording) leaves the session idle:
\* mode "idle" and talk_recording_active false.
C1_TurnEndsIdle ==
    [][\A h \in Handlers :
         (pc[h] \in ProcessingPcs /\ pc'[h] = "idle")
            => (state'.mode = "idle" /\ ~state'.talk_recording_active)]_vars

C3_OneTurnAtATime ==
    Cardinality({h \in Handlers : pc[h] \in ProcessingPcs}) <= 1

\* C10: a turn whose plan holds at least one tool call, with the executor
\* initialized, hands one more job to the executor and goes on to an ok
\* answer that lists the tool names and the last status.
C10_DispatchSubmitsPlan ==
    [][\A h \in Handlers, ok \in BOOLEAN, c \in ToolCallListsOneKey :
         (plan[h] /\ c # <<>> /\ tool_executor = "ready" /\ Respond(h, ok, c))
            => /\ Len(jobs') = Len(jobs) + 1
               /\ jobs'[Len(jobs')].calls = c
               /\ jobs'[Len(jobs')].callback
               /\ pc'[h] = "idle"
               /\ response'.status = "ok"
               /\ response'.active_tools = ToolNames(c)
               /\ response'.last_tool_status = QueuedMessage(Len(c))]_vars

(* --------- RecordingController called in any order: SpecCtl ----------- *)
\* A thread is about to call talk_recorder.start() or talk_recorder.stop(),
\* whatever the session state.
CtlCall(h, op) ==
    /\ pc[h] = "idle"
    /\ \A g \in Handlers : g < h => pc[g] # "idle"
    /\ op = "start" =>
          nextPath + Cardinality({g \in Handlers : pc[g] = "start"}) <= MaxRecordings
    /\ Goto(h, op, NoResult)
    /\ UNCHANGED <<state, conversation, tool_executor, recorder, current_path,
                   files, nextPath, path, plan, convBefore, jobs>>

\* RecordingController.start() and the caller's return
CtlStart(h, deviceOk) ==
    /\ pc[h] = "start"
    /\ LET o == ControllerStart(recorder, current_path, nextPath, deviceOk)
       IN /\ recorder' = o.rec
          /\ current_path' = o.cp
          /\ files' = IF o.exc = "" THEN files \cup {o.ret} ELSE files
          /\ nextPath' = IF o.exc = "Recording already in progress"
                         THEN nextPath ELSE nextPath + 1
          /\ Return(h, IF o.exc = "" THEN Ok ELSE Error(o.exc))
    /\ UNCHANGED <<state, conversation, tool_executor, jobs>>

\* RecordingController.stop() and the caller's return
CtlStop(h) ==
    /\ pc[h] = "stop"
    /\ LET o == ControllerStop(recorder, current_path)
       IN /\ recorder' = o.rec
          /\ current_path' = o.cp
          /\ Return(h, IF o.exc = "" THEN Ok ELSE Error(o.exc))
    /\ UNCHANGED <<state, conversation, tool_executor, files, nextPath, jobs>>

NextCtl ==
    \/ \E h \in Handlers, op \in {"start", "stop"} : CtlCall(h, op)
    \/ \E h \in Handlers, ok \in BOOLEAN : CtlStart(h, ok)
    \/ \E h \in Handlers : CtlStop(h)

SpecCtl == Init /\ [][NextCtl]_vars

\* C4: a start() made while a session is active fails with "Recording
\* already in progress", a stop() made while none is active fails with "No
\* recording in progress", and neither changes the stream, the writer, the
\* destination, the current path or the files on disk.
C4_FailedCallsChangeNothing ==
    [][\A h \in Handlers :
         /\ \A ok \in BOOLEAN :
              (recorder.stream /\ CtlStart(h, ok))
                 => /\ response' = Error("Recording already in progress")
                    /\ UNCHANGED <<recorder, current_path, files, nextPath>>
         /\ (~recorder.stream /\ CtlStop(h))
                 => /\ response' = Error("No recording in progress")
                    /\ UNCHANGED <<recorder, current_path, files, nextPath>>]_vars

\* C4 witness: a start() has just been refused while the session it met is
\* still recording to its destination.
C4_Witness ==
    /\ response = Error("Recording already in progress")
    /\ recorder.stream /\ recorder.writer
    /\ recorder.destination = current_path
    /\ current_path \in files

(* ------------------------- main.py: SpecCli --------------------------- *)
\* args.system_prompt may be empty: the log then starts empty
InitCli ==
    /\ conversation \in {<<>>, <<SystemEntry>>}
    /\ InitRest

\* `continue`, `break` or the next statement of the loop body
CliGoto(label) ==
    /\ cli_pc' = label
    /\ UNCHANGED <<state, tool_executor, recorder, current_path, pc, path, plan,
                   result, response, convBefore, jobs, auxVars>>

\* audio_path = record_press_to_speak(): it returns the temporary file it
\* wrote, is interrupted from the keyboard, or fails after creating the file.
CliRecord(outcome) ==
    /\ cli_pc = "record"
    /\ nextPath <= MaxRecordings
    /\ CASE outcome = "ok" ->
              /\ audio_path' = nextPath
              /\ files' = files \cup {nextPath}
              /\ nextPath' = nextPath + 1
              /\ CliGoto("transcribe")
         [] outcome = "interrupt" ->
              /\ CliGoto("exited")
              /\ UNCHANGED <<audio_path, files, nextPath>>
         [] OTHER ->
              /\ files' = files \cup {nextPath}
              /\ nextPath' = nextPath + 1
              /\ CliGoto("record")
              /\ UNCHANGED audio_path
    /\ UNCHANGED <<conversation, playback>>

\* transcribe_file_sync(...).strip(), the finally that unlinks the audio
\* file, then the silence `continue` and the exit-phrase `break`.
CliTranscribe(outcome) ==
    /\ cli_pc = "transcribe"
    /\ files' = Unlink(files, audio_path)
    /\ CASE outcome = "text" -> CliGoto("capture")
         [] outcome = "exit" -> CliGoto("exited")
         [] OTHER -> CliGoto("record")
    /\ UNCHANGED <<conversation, nextPath, audio_path, playback>>

\* capture_with_context(...), then conversation.append(user entry)
CliCapture(frameOk) ==
    /\ cli_pc = "capture"
    /\ IF frameOk
       THEN /\ conversation' = Append(conversation, UserEntry(audio_path))
            /\ CliGoto("stream")
       ELSE /\ CliGoto("record")
            /\ UNCHANGED conversation
    /\ UNCHANGED <<files, nextPath, audio_path, playback>>

\* assistant_text = _stream_assistant_text(...): on an exception the user
\* entry is popped; on empty text the loop continues as it is.
CliStream(outcome) ==
    /\ cli_pc = "stream"
    /\ CASE outcome = "raise" ->
              /\ conversation' = Pop(conversation)
              /\ CliGoto("record")
         [] outcome = "empty" ->
              /\ CliGoto("record")
              /\ UNCHANGED conversation
         [] OTHER ->
              /\ conversation' = Append(conversation, AssistantEntry(audio_path))
              /\ CliGoto("speak")
    /\ UNCHANGED <<files, nextPath, audio_path, playback>>

\* speak_text(...) is called in the loop's own thread: the output stream
\* opens (or the call raises at once and the loop goes on).
CliSpeakBegin(deviceOk) ==
    /\ cli_pc = "speak"
    /\ ~playback.active
    /\ IF deviceOk
       THEN /\ playback' = [active |-> TRUE, chunks |-> 0]
            /\ CliGoto("speak")
       ELSE /\ CliGoto("record")
            /\ UNCHANGED playback
    /\ UNCHANGED <<conversation, files, nextPath, audio_path>>

\* one chunk of the speech stream is written to the device
CliPlayChunk ==
    /\ cli_pc = "speak"
    /\ playback.active
    /\ playback.chunks < MaxChunks
    /\ playback' = [playback EXCEPT !.chunks = @ + 1]
    /\ CliGoto("speak")
    /\ UNCHANGED <<conversation, files, nextPath, audio_path>>

\* the stream ends or breaks: speak_text returns or raises, and the loop
\* body is over
CliSpeakEnd ==
    /\ cli_pc = "speak"
    /\ playback.active
    /\ playback' = NoPlayback
    /\ CliGoto("record")
    /\ UNCHANGED <<conversation, files, nextPath, audio_path>>

NextCli ==
    \/ \E o \in {"ok", "interrupt", "fail"} : CliRecord(o)
    \/ \E o \in {"raise", "empty", "exit", "text"} : CliTranscribe(o)
    \/ \E ok \in BOOLEAN : CliCapture(ok)
    \/ \E o \in {"raise", "empty", "text"} : CliStream(o)
    \/ \E ok \in BOOLEAN : CliSpeakBegin(ok)
    \/ CliPlayChunk
    \/ CliSpeakEnd

SpecCli == InitCli /\ [][NextCli]_vars

\* C9: the thread of a turn is never held at the speaking step while the
\* response is being played.
C9_TurnNeverWaitsForPlayback ==
    ~(cli_pc = "speak" /\ playback.active)

(* --------------------- tool_executor.py: SpecExec --------------------- *)
\* the argument shapes a caller of submit(plan, screenshot_path, status_callback)
\* can use: the number of positional arguments and the keywords
SubmitShapes ==
    {[n |-> 1, kw |-> {}], [n |-> 2, kw |-> {"status_callback"}], [n |-> 3, kw |-> {}]}

\* What a tool task can end with. _run_web_search catches every failure and
\* returns the empty list; _run_ifixit returns the guides, none when the
\* fetch failed, and lets an error of _fetch_ifixit's parsing escape;
\* _run_segmentation returns the service's answer or an error dict.
ToolOutcomes(tool, hasImage) ==
    CASE tool = "web_search" -> {Returned("list", "empty")}
      [] tool = "ifixit_tutorials" ->
           {Returned("list", "guides"), Returned("list", "empty"), Raised("AttributeError")}
      [] OTHER ->
           IF hasImage
           THEN {Returned("dict", "masks"), Returned("dict", "error")}
           ELSE {Returned("dict", "No image provided")}

\* the elements of a returned list
ListItems(val) == IF val = "guides" THEN <<"guide">> ELSE <<>>

\* collected = {q: v}
PutAlone(c, q, v) == [k \in {q} |-> v]

\* collected[q] = v
Put(c, q, v) == [k \in DOMAIN c \cup {q} |-> IF k = q THEN v ELSE c[k]]

\* The loop over gather's results: a list replaces what the key holds, any
\* other value is appended to the key's list.
RECURSIVE Aggregate(_, _, _)
Aggregate(calls, tasks, n) ==
    IF n = 0 THEN [k \in {} |-> <<>>]
    ELSE LET c == Aggregate(calls, tasks, n - 1)
             q == calls[n].key
             d == tasks[n]
         IN IF d.kind = "list" THEN Put(c, q, ListItems(d.val))
            ELSE IF q \in DOMAIN c THEN Put(c, q, Append(c[q], d.val))
            ELSE Put(c, q, <<d.val>>)

\* gather resumes the coroutine with the results as soon as one task is done
GatherReturnsOnFirst(tasks) == \E i \in DOMAIN tasks : tasks[i].st = "returned"

\* `await asyncio.gather(*tasks)` resumes the coroutine with the results
\* once every task has returned
GatherReturns(tasks) == \A i \in DOMAIN tasks : tasks[i].st = "returned"

\* ... and with the exception as soon as one task has raised
GatherRaises(tasks) == \E i \in DOMAIN tasks : tasks[i].st = "raised"

\* status_callback(m) for each message, in order, when a callback was given
RECURSIVE Deliver(_, _)
Deliver(st, msgs) ==
    IF msgs = <<>> THEN st
    ELSE Deliver(HandleToolStatusUpdate(st, Head(msgs)), Tail(msgs))

RECURSIVE TotalCalls(_)
TotalCalls(js) == IF js = <<>> THEN 0 ELSE Len(Head(js).calls) + TotalCalls(Tail(js))

ExecUnchanged ==
    UNCHANGED <<conversation, tool_executor, recorder, current_path, files, nextPath,
                pc, path, plan, result, response, convBefore, cliVars, auxVars>>

\* A caller thread runs submit(...) with a plan. The keys are
\* interchangeable, so a plan's first call is taken to use the first key.
ExecSubmit(calls, shape) ==
    /\ Len(jobs) < MaxJobs
    /\ IF calls = <<>> THEN TRUE ELSE calls[1].key = "q1"
    /\ TotalCalls(jobs) + Len(calls) <= MaxCalls
    /\ jobs' = Submit(jobs, calls, shape.n, shape.kw).jobs
    /\ UNCHANGED state
    /\ ExecUnchanged

\* a loop that runs what reaches it for as long as its thread is alive
RunsWhileAlive(e, j) == e.loop = "running"

\* The loop runs job j's callbacks: it is in run_forever, and it leaves
\* run_forever at loop.stop before it gets to the first step of a coroutine
\* that was handed to it after loop.stop.
LoopRuns(e, j) == e.loop = "running" /\ (e.stop => j <= e.queued)

\* one status for the whole job, taken from its first call
RunningStatusOnce(calls) == <<RunningMessage(calls[1].tool)>>

\* the status texts of the for loop over plan.tool_calls, in the order sent
RunningStatuses(calls) == [i \in 1..Len(calls) |-> RunningMessage(calls[i].tool)]

\* The loop runs _execute_plan up to its await: one "Running ..." status and
\* one task per call; with no task it goes straight through to the end.
JobStart(j) ==
    /\ j \in 1..Len(jobs)
    /\ jobs[j].pc = "scheduled"
    /\ \A k \in 1..(j - 1) : jobs[k].pc # "scheduled"
    /\ LoopRuns(executor_loop, j)
    /\ LET J == jobs[j]
           running == RunningStatuses(J.calls)
           msgs == IF ~J.callback THEN <<>>
                   ELSE IF J.calls = <<>> THEN <<FinishedMessage>>
                   ELSE running
       IN /\ jobs' = [jobs EXCEPT ![j] =
                        [J EXCEPT !.pc = IF J.calls = <<>> THEN "done" ELSE "gathering",
                                  !.tasks = [i \in 1..Len(J.calls) |-> RunningTask],
                                  !.log = msgs,
                                  !.collected = Aggregate(J.calls, J.tasks, 0)]]
          /\ state' = Deliver(state, msgs)
    /\ ExecUnchanged

\* A tool task runs to its end. input tells what the call's input holds of
\* images, read when the task was created. A segmentation task with an
\* image in its request body posts it to the segmentation endpoint and
\* returns the answer or the error; without one it returns at once. Of a
\* request the job keeps the call that made it and the number of image
\* sources in its body.
TaskEnd(j, i, outcome, input) ==
    /\ j \in 1..Len(jobs)
    /\ i \in 1..Len(jobs[j].calls)
    /\ jobs[j].tasks[i].st = "running"
    /\ LoopRuns(executor_loop, j)
    /\ jobs[j].calls[i].tool # "segmentation" => input = "none"
    /\ LET J == jobs[j]
           images == SegmentationPayload(input, J.image)
           posts == J.calls[i].tool = "segmentation" /\ images # {}
       IN /\ outcome \in ToolOutcomes(J.calls[i].tool, images # {})
          /\ jobs' = [jobs EXCEPT ![j].tasks[i] = outcome,
                                  ![j].requests =
                                      IF posts
                                      THEN @ \cup {[call |-> i,
                                                    sources |-> Cardinality(images)]}
                                      ELSE @]
    /\ UNCHANGED state
    /\ ExecUnchanged

\* gather returns: the results are aggregated, "Tools finished." is sent and
\* the coroutine returns
JobFinish(j) ==
    /\ j \in 1..Len(jobs)
    /\ jobs[j].pc = "gathering"
    /\ LoopRuns(executor_loop, j)
    /\ GatherReturns(jobs[j].tasks)
    /\ LET J == jobs[j]
           msgs == IF J.callback THEN <<FinishedMessage>> ELSE <<>>
       IN /\ jobs' = [jobs EXCEPT ![j] =
                        [J EXCEPT !.pc = "done",
                                  !.log = J.log \o msgs,
                                  !.collected = Aggregate(J.calls, J.tasks, Len(J.calls))]]
          /\ state' = Deliver(state, msgs)
    /\ ExecUnchanged

\* gather raises a task's exception into the coroutine, which ends with it;
\* the other tasks are left running
JobRaise(j) ==
    /\ j \in 1..Len(jobs)
    /\ jobs[j].pc = "gathering"
    /\ LoopRuns(executor_loop, j)
    /\ GatherRaises(jobs[j].tasks)
    /\ jobs' = [jobs EXCEPT ![j].pc = "raised"]
    /\ UNCHANGED state
    /\ ExecUnchanged

NextExec ==
    \/ \E c \in ToolCallLists(MaxCalls - TotalCalls(jobs)), sh \in SubmitShapes :
          ExecSubmit(c, sh)
    \/ \E j \in 1..MaxJobs : JobStart(j)
    \/ \E j \in 1..Len(jobs) :
          \E i \in DOMAIN jobs[j].calls, input \in ImageInputs :
             \E o \in ToolOutcomes(jobs[j].calls[i].tool,
                                   SegmentationPayload(input, jobs[j].image) # {}) :
                TaskEnd(j, i, o, input)
    \/ \E j \in 1..MaxJobs : JobFinish(j)
    \/ \E j \in 1..MaxJobs : JobRaise(j)

SpecExec == Init /\ [][NextExec]_vars

HasFinished(J) == \E m \in DOMAIN J.log : J.log[m] = FinishedMessage

\* C5: in every job's status log "Tools finished." occurs at most once and
\* only when every task of the job has returned or raised; a job without
\* calls has no "Running ..." status.
C5_FinishedOnceAfterAllCalls ==
    \A j \in 1..Len(jobs) :
        LET J == jobs[j]
        IN /\ Cardinality({m \in DOMAIN J.log : J.log[m] = FinishedMessage}) <= 1
           /\ HasFinished(J) =>
                 \A i \in DOMAIN J.tasks : J.tasks[i].st \in {"returned", "raised"}
           /\ J.calls = <<>> =>
                 \A m \in DOMAIN J.log : ~StartsWithRunning(J.log[m])

\* C5 witness: a job with at least two calls has reported "Tools finished."
\* after one "Running ..." per call.
C5_Witness ==
    \E j \in 1..Len(jobs) :
        /\ Len(jobs[j].calls) >= 2
        /\ Len(jobs[j].log) = Len(jobs[j].calls) + 1
        /\ jobs[j].log[Len(jobs[j].log)] = FinishedMessage

\* C6: no job's coroutine ends with the exception of one of its tool tasks.
C6_TaskExceptionStaysInTask ==
    \A j \in 1..Len(jobs) : jobs[j].pc # "raised"

\* C7: once a job's coroutine is over, "Tools finished." has been reported
\* and the result of every task that returned is in the job's result map
\* under its call's key, whatever happened to the other tasks.
C7_SiblingsAggregatedAndFinished ==
    \A j \in 1..Len(jobs) :
        LET J == jobs[j]
        IN (J.pc \in {"done", "raised"} /\ J.callback)
              => /\ HasFinished(J)
                 /\ \A i \in DOMAIN J.tasks :
                       J.tasks[i].st = "returned" => J.calls[i].key \in DOMAIN J.collected

\* C8: the step that adds a job is a submit() call, and it only appends the
\* job's coroutine, not yet started, to what the loop has to run: no task of
\* it is created, no status is sent, and the jobs already there are
\* untouched.
C8_SubmitOnlyQueues ==
    [][Len(jobs') # Len(jobs)
         => /\ Len(jobs') = Len(jobs) + 1
            /\ SubSeq(jobs', 1, Len(jobs)) = jobs
            /\ \E sh \in SubmitShapes : ExecSubmit(jobs'[Len(jobs')].calls, sh)
            /\ jobs'[Len(jobs')].pc = "scheduled"
            /\ \A i \in DOMAIN jobs'[Len(jobs')].tasks :
                  jobs'[Len(jobs')].tasks[i].st = "pending"
            /\ Len(jobs'[Len(jobs')].tasks) = Len(jobs'[Len(jobs')].calls)
            /\ jobs'[Len(jobs')].log = <<>>
            /\ state' = state]_vars

\* C8 witness: a plan with a call was submitted while a task of an earlier
\* job was running, and is waiting for the loop.
C8_Witness ==
    /\ Len(jobs) = 2
    /\ jobs[1].pc = "gathering"
    /\ \E i \in DOMAIN jobs[1].tasks : jobs[1].tasks[i].st = "running"
    /\ jobs[2].pc = "scheduled"
    /\ Len(jobs[2].calls) >= 1

\* the records and list elements a returned task contributes under its key
Contributed(d) == IF d.kind = "list" THEN ListItems(d.val) ELSE <<d.val>>

\* C11: in the result map of a job that has ended normally, the entry of
\* each key holds what every call of that key returned: no call's result has
\* been replaced by a later call's, whether the results are lists or single
\* records.
C11_SharedKeyKeepsEveryResult ==
    \A j \in 1..Len(jobs) :
        LET J == jobs[j]
        IN J.pc = "done" =>
              \A i \in DOMAIN J.tasks :
                 \A n \in DOMAIN Contributed(J.tasks[i]) :
                    /\ J.calls[i].key \in DOMAIN J.collected
                    /\ \E m \in DOMAIN J.collected[J.calls[i].key] :
                          J.collected[J.calls[i].key][m] = Contributed(J.tasks[i])[n]

\* C12: every request made to the segmentation endpoint carries exactly one
\* image source, and only a segmentation task makes one, for its own call;
\* a segmentation call whose input holds neither image path nor inline image,
\* in a job without fallback path, makes no request and returns the "No
\* image provided" error for its key, where the job's result map holds it at
\* the end unless a later call of the same key returned a list.
C12_SegmentationNeedsOneImage ==
    /\ [](\A j \in 1..Len(jobs) :
            LET J == jobs[j]
            IN /\ \A r \in J.requests :
                     /\ r.sources = 1
                     /\ J.calls[r.call].tool = "segmentation"
                     /\ J.tasks[r.call] # Returned("dict", "No image provided")
               /\ \A i \in DOMAIN J.tasks :
                     (/\ J.tasks[i] = Returned("dict", "No image provided")
                      /\ J.pc = "done"
                      /\ \A k \in i + 1..Len(J.calls) :
                            ~(J.calls[k].key = J.calls[i].key /\ J.tasks[k].kind = "list"))
                        => \E m \in DOMAIN J.collected[J.calls[i].key] :
                              J.collected[J.calls[i].key][m] = "No image provided")
    /\ [][\A j \in 1..Len(jobs) : \A i \in DOMAIN jobs[j].calls :
            (/\ ~jobs[j].image
             /\ jobs[j].calls[i].tool = "segmentation"
             /\ jobs[j].tasks[i].st = "running"
             /\ Len(jobs') = Len(jobs)
             /\ jobs'[j].tasks[i].st # "running"
             /\ TaskEnd(j, i, jobs'[j].tasks[i], "none"))
               => /\ jobs'[j].requests = jobs[j].requests
                  /\ jobs'[j].tasks[i] = Returned("dict", "No image provided")]_vars

\* C12 witness: in a job submitted without fallback path a segmentation call
\* without image has returned the error and no request was made, while a
\* second segmentation call of the job has posted its one image.
C12_Witness ==
    \E j \in 1..Len(jobs) :
        LET J == jobs[j]
        IN /\ ~J.image /\ J.pc = "done"
           /\ \E i, k \in DOMAIN J.calls :
                 /\ J.calls[i].tool = "segmentation"
                 /\ J.tasks[i] = Returned("dict", "No image provided")
                 /\ J.calls[k].tool = "segmentation"
                 /\ J.requests = {[call |-> k, sources |-> 1]}

(* -------------------- audio/text_to_speech.py: SpecTts ----------------- *)
\* sizes in bytes of the chunks iter_bytes() yields: none, odd, even
ChunkSizes == {0, 1, 2}

\* the loop's `if chunk:` body: a chunk is joined to the byte left over, its
\* even part is playable and the odd byte is kept; an empty chunk changes
\* nothing
SplitChunk(leftover, size) ==
    IF size = 0 THEN [playable |-> 0, leftover |-> leftover]
    ELSE [playable |-> (leftover + size) - ((leftover + size) % 2),
          leftover |-> (leftover + size) % 2]

\* a playback that looks at the flag only once the stream has ended
StopSeenAfterStream(flag, at) == flag /\ at \in {"final", "poll"}

\* `if _stop_tts_event.is_set(): return` at the head of the chunk loop, before
\* the leftover is written, and in the wait loop
StopSeen(flag, at) == flag /\ at \in {"chunk", "final", "poll"}

\* every step of text_to_speech leaves the rest alone; a call that returns
\* is no longer one a stop was asked of
TtsStep(s, new) ==
    /\ speak' = [speak EXCEPT ![s] = new]
    /\ stop_requested' = IF new.pc = "idle" THEN stop_requested \ {s}
                         ELSE stop_requested
    /\ UNCHANGED <<coreVars, camVars, recVars, exeVars, planVars, pcmVars, uiVars, uiCallVars, directVars, segVars>>

\* speak_text ends: the `with` blocks close the output stream and release
\* the lock
SpeakReturn(s, how) ==
    /\ TtsStep(s, NotSpeaking(speak[s].calls, how))
    /\ tts_lock' = NoThread
    /\ UNCHANGED stop_tts_event

\* a thread calls speak_text and arrives at `with _tts_lock:`
SpeakCall(s) ==
    /\ speak[s].pc = "idle"
    /\ speak[s].calls < MaxSpeaks
    /\ TtsStep(s, [NotSpeaking(speak[s].calls + 1, speak[s].last) EXCEPT !.pc = "lock"])
    /\ UNCHANGED <<stop_tts_event, tts_lock>>

\* _tts_lock is acquired
SpeakAcquire(s) ==
    /\ speak[s].pc = "lock"
    /\ tts_lock = NoThread
    /\ tts_lock' = s
    /\ TtsStep(s, [speak[s] EXCEPT !.pc = "reset"])
    /\ UNCHANGED stop_tts_event

\* reset_stop_flag()
SpeakReset(s) ==
    /\ speak[s].pc = "reset"
    /\ stop_tts_event' = FALSE
    /\ TtsStep(s, [speak[s] EXCEPT !.pc = "open"])
    /\ UNCHANGED tts_lock

\* _stream_pcm_to_device opens the output stream and the speech stream, or
\* one of the two raises
SpeakOpen(s, ok) ==
    /\ speak[s].pc = "open"
    /\ IF ok
       THEN /\ TtsStep(s, [speak[s] EXCEPT !.pc = "iter", !.stream = TRUE])
            /\ UNCHANGED <<stop_tts_event, tts_lock>>
       ELSE SpeakReturn(s, "raised")

\* iter_bytes() yields a chunk of the given size: the flag is looked at, the
\* chunk is split, and its playable part, if any, goes to the device next
SpeakChunk(s, size) ==
    /\ speak[s].pc = "iter"
    /\ speak[s].got < MaxChunks
    /\ IF StopSeen(stop_tts_event, "chunk")
       THEN SpeakReturn(s, "stopped")
       ELSE LET c == SplitChunk(speak[s].leftover, size)
            IN /\ TtsStep(s, [speak[s] EXCEPT !.got = @ + 1,
                                             !.leftover = c.leftover,
                                             !.playable = c.playable,
                                             !.pc = IF c.playable > 0 THEN "write"
                                                    ELSE "iter"])
               /\ UNCHANGED <<stop_tts_event, tts_lock>>

\* audio_stream.write(playable)
SpeakWrite(s) ==
    /\ speak[s].pc = "write"
    /\ TtsStep(s, [speak[s] EXCEPT !.pc = "iter", !.playable = 0,
                                  !.written = @ + 1,
                                  !.late = IF stop_tts_event THEN @ + 1 ELSE @])
    /\ UNCHANGED <<stop_tts_event, tts_lock>>

\* iter_bytes() raises: the speech stream broke
SpeakStreamFails(s) ==
    /\ speak[s].pc = "iter"
    /\ SpeakReturn(s, "raised")

\* iter_bytes() is exhausted: the loop is over
SpeakStreamEnds(s) ==
    /\ speak[s].pc = "iter"
    /\ TtsStep(s, [speak[s] EXCEPT !.pc = "final"])
    /\ UNCHANGED <<stop_tts_event, tts_lock>>

\* the check before the leftover; without a leftover the output stream is
\* closed and the wait loop begins
SpeakFinal(s) ==
    /\ speak[s].pc = "final"
    /\ IF StopSeen(stop_tts_event, "final")
       THEN SpeakReturn(s, "stopped")
       ELSE /\ TtsStep(s, IF speak[s].leftover > 0
                          THEN [speak[s] EXCEPT !.pc = "pad"]
                          ELSE [speak[s] EXCEPT !.pc = "poll", !.stream = FALSE])
            /\ UNCHANGED <<stop_tts_event, tts_lock>>

\* audio_stream.write(padded), then the output stream is closed
SpeakWriteLeftover(s) ==
    /\ speak[s].pc = "pad"
    /\ TtsStep(s, [speak[s] EXCEPT !.pc = "poll", !.stream = FALSE, !.leftover = 0,
                                  !.written = @ + 1,
                                  !.late = IF stop_tts_event THEN @ + 1 ELSE @])
    /\ UNCHANGED <<stop_tts_event, tts_lock>>

\* the wait loop: on the flag sd.stop() and return; else sd.get_stream()
\* reports no active stream (or raises one of the two errors caught), or
\* raises another error
SpeakPoll(s, outcome) ==
    /\ speak[s].pc = "poll"
    /\ IF StopSeen(stop_tts_event, "poll") THEN SpeakReturn(s, "stopped")
       ELSE IF outcome = "over" THEN SpeakReturn(s, "played")
       ELSE SpeakReturn(s, "raised")

\* the playbacks kicked off and not yet over: their worker threads are in
\* speak_text
InSpeakText == {s \in Speakers : speak[s].pc # "idle"}

\* stop_speech(), from any thread
StopSpeech ==
    /\ ~stop_tts_event
    /\ stop_tts_event' = TRUE
    /\ stop_requested' = stop_requested \cup InSpeakText
    /\ UNCHANGED <<coreVars, camVars, recVars, exeVars, planVars, tts_lock, speak, pcmVars, uiVars, uiCallVars, directVars, segVars>>

NextTts ==
    \/ \E s \in Speakers : SpeakCall(s)
    \/ \E s \in Speakers : SpeakAcquire(s)
    \/ \E s \in Speakers : SpeakReset(s)
    \/ \E s \in Speakers, ok \in BOOLEAN : SpeakOpen(s, ok)
    \/ \E s \in Speakers, n \in ChunkSizes : SpeakChunk(s, n)
    \/ \E s \in Speakers : SpeakWrite(s)
    \/ \E s \in Speakers : SpeakStreamFails(s)
    \/ \E s \in Speakers : SpeakStreamEnds(s)
    \/ \E s \in Speakers : SpeakFinal(s)
    \/ \E s \in Speakers : SpeakWriteLeftover(s)
    \/ \E s \in Speakers, o \in {"over", "raise"} : SpeakPoll(s, o)
    \/ StopSpeech

SpecTts == Init /\ [][NextTts]_vars

C14_NewCallSupersedes ==
    \A s \in Speakers :
        (speak[s].pc = "lock" /\ tts_lock # NoThread /\ speak[tts_lock].stream)
           => stop_tts_event

(* ----------------------- camera/helpers.py: SpecCam -------------------- *)
\* the max_age values callers pass, in seconds, and the timeouts of
\* wait_until_ready
MaxAges == {NoMaxAge, 0, 1, 2}
ReadyTimeouts == {1, 2}

\* a freshness test that also rejects a frame of age exactly max_age
GetLatestFrameStrict(frame, ts, time, maxAge) ==
    IF frame = NoFrame THEN NoFrame
    ELSE IF maxAge # NoMaxAge /\ (time - ts) >= maxAge THEN NoFrame
    ELSE frame

\* FrameCache.get_latest_frame once frame and ts are read: time is time()
GetLatestFrame(frame, ts, time, maxAge) ==
    IF frame = NoFrame THEN NoFrame
    ELSE IF maxAge # NoMaxAge /\ (time - ts) > maxAge THEN NoFrame
    ELSE frame

\* the JPEG of what the device showed at time t
FrameId(t) == t + 1

\* a store that replaces the frame and leaves the timestamp for later
StoreFrameOnly(fc, frame, t) == [fc EXCEPT !.latest_frame = frame]

\* with self._lock: self._latest_frame = buffer.tobytes(); self._latest_ts = time()
StoreFrame(fc, frame, t) == [fc EXCEPT !.latest_frame = frame, !.latest_ts = t]

CamUnchanged == UNCHANGED <<coreVars, ttsVars, recVars, exeVars, planVars, pcmVars, stopVars, uiVars, uiCallVars, directVars, segVars>>

\* the client's call is over
CamReturn(ret) == client' = NoCall(ret, NoMaxAge, 0)

\* a second passes; a timed wait does not sleep past its deadline
Tick ==
    /\ now < MaxTime
    /\ client.pc \in {"waiting", "join"} => now < client.deadline
    /\ now' = now + 1
    /\ UNCHANGED <<frame_cache, run, client>>
    /\ CamUnchanged

\* FrameCache.start()
CamStart ==
    /\ client.pc = "idle"
    /\ IF frame_cache.thread = "alive"
       THEN UNCHANGED <<frame_cache, run>>
       ELSE /\ frame_cache' = [frame_cache EXCEPT !.stop = FALSE, !.ready = FALSE,
                                                  !.thread = "alive"]
            /\ run' = [pc |-> "open", device |-> FALSE, published |-> FALSE]
    /\ CamReturn("started")
    /\ UNCHANGED now
    /\ CamUnchanged

\* _run: cv2.VideoCapture(index); if it is not opened the error is recorded,
\* _ready is set and the thread ends
RunOpen(ok) ==
    /\ run.pc = "open"
    /\ IF ok
       THEN /\ run' = [run EXCEPT !.pc = "loop", !.device = TRUE]
            /\ UNCHANGED frame_cache
       ELSE /\ run' = [run EXCEPT !.pc = "off"]
            /\ frame_cache' = [frame_cache EXCEPT !.error = TRUE, !.ready = TRUE,
                                                  !.thread = "dead"]
    /\ UNCHANGED <<now, client>>
    /\ CamUnchanged

\* `while not self._stop.is_set()` and `if self._stop.wait(interval): break`
RunLoop ==
    /\ run.pc = "loop"
    /\ run' = [run EXCEPT !.pc = IF frame_cache.stop THEN "release" ELSE "read"]
    /\ UNCHANGED <<frame_cache, now, client>>
    /\ CamUnchanged

\* capture.read() and cv2.imencode: no frame, no JPEG, or the frame is
\* stored with its time under the lock and _ready is set
RunRead(outcome) ==
    /\ run.pc = "read"
    /\ IF outcome = "frame"
       THEN /\ frame_cache' = [StoreFrame(frame_cache, FrameId(now), now)
                                  EXCEPT !.ready = TRUE]
            /\ run' = [run EXCEPT !.pc = "loop", !.published = TRUE]
       ELSE /\ run' = [run EXCEPT !.pc = "loop"]
            /\ UNCHANGED frame_cache
    /\ UNCHANGED <<now, client>>
    /\ CamUnchanged

\* finally: capture.release(), and the thread ends
RunRelease ==
    /\ run.pc = "release"
    /\ run' = [run EXCEPT !.pc = "off", !.device = FALSE]
    /\ frame_cache' = [frame_cache EXCEPT !.thread = "dead"]
    /\ UNCHANGED <<now, client>>
    /\ CamUnchanged

\* FrameCache.stop(): self._stop.set(), then the join if the thread is alive
CamStop ==
    /\ client.pc = "idle"
    /\ frame_cache' = [frame_cache EXCEPT !.stop = TRUE]
    /\ IF frame_cache.thread = "alive"
       THEN client' = [NoCall("none", NoMaxAge, 0) EXCEPT !.pc = "join", !.op = "stop",
                                                          !.deadline = now + JoinTimeout]
       ELSE CamReturn("stopped")
    /\ UNCHANGED <<run, now>>
    /\ CamUnchanged

\* self._thread.join(timeout=1.0) returns: the thread has ended or the
\* second is over
CamJoin ==
    /\ client.pc = "join"
    /\ frame_cache.thread = "dead" \/ now >= client.deadline
    /\ CamReturn("stopped")
    /\ UNCHANGED <<frame_cache, run, now>>
    /\ CamUnchanged

\* wait_until_ready(timeout) up to self._ready.wait(timeout)
CamWait(timeout) ==
    /\ client.pc = "idle"
    /\ IF frame_cache.thread = "none"
       THEN CamReturn("not started")
       ELSE client' = [NoCall("none", NoMaxAge, 0) EXCEPT !.pc = "waiting", !.op = "wait",
                                                          !.deadline = now + timeout]
    /\ UNCHANGED <<frame_cache, run, now>>
    /\ CamUnchanged

\* self._ready.wait(timeout) returns: the event is set or the time is over
CamWake ==
    /\ client.pc = "waiting"
    /\ frame_cache.ready \/ now >= client.deadline
    /\ client' = [client EXCEPT !.pc = "chk_error"]
    /\ UNCHANGED <<frame_cache, run, now>>
    /\ CamUnchanged

\* if self._error: raise self._error
CamCheckError ==
    /\ client.pc = "chk_error"
    /\ IF frame_cache.error THEN CamReturn("error")
       ELSE client' = [client EXCEPT !.pc = "chk_ready"]
    /\ UNCHANGED <<frame_cache, run, now>>
    /\ CamUnchanged

\* if not self._ready.is_set(): raise TimeoutError
CamCheckReady ==
    /\ client.pc = "chk_ready"
    /\ CamReturn(IF frame_cache.ready THEN "ready" ELSE "timeout")
    /\ UNCHANGED <<frame_cache, run, now>>
    /\ CamUnchanged

\* get_latest_frame(max_age=...), called by itself (op "get") or first thing
\* in capture_with_context and in the /frame handler (op "capture"): frame
\* and timestamp are read under the lock
CamGet(op, maxAge) ==
    /\ client.pc = "idle"
    /\ op = "capture" => maxAge # NoMaxAge
    /\ client' = [NoCall("none", maxAge, 0) EXCEPT !.pc = "age", !.op = op,
                                                  !.frame = frame_cache.latest_frame,
                                                  !.ts = frame_cache.latest_ts]
    /\ UNCHANGED <<frame_cache, run, now>>
    /\ CamUnchanged

\* the rest of get_latest_frame; without a frame capture_with_context and
\* /frame go on to capture_frame
CamCheckAge ==
    /\ client.pc = "age"
    /\ LET frame == GetLatestFrame(client.frame, client.ts, now, client.max_age)
       IN IF frame # NoFrame
          THEN client' = NoCall("frame", client.max_age, now - client.ts)
          ELSE IF client.op = "get"
          THEN client' = NoCall("absent", client.max_age,
                                IF client.frame = NoFrame THEN 0 ELSE now - client.ts)
          ELSE client' = [client EXCEPT !.pc = "oneshot"]
    /\ UNCHANGED <<frame_cache, run, now>>
    /\ CamUnchanged

\* capture_frame: cv2.VideoCapture(index) opens the device or not
OneShotOpen(ok) ==
    /\ client.pc = "oneshot"
    /\ IF ok THEN client' = [client EXCEPT !.pc = "oneshot_read"]
       ELSE CamReturn("capture failed")
    /\ UNCHANGED <<frame_cache, run, now>>
    /\ CamUnchanged

\* capture_frame: read and encode, then finally: capture.release()
OneShotRead(ok) ==
    /\ client.pc = "oneshot_read"
    /\ CamReturn(IF ok THEN "captured" ELSE "capture failed")
    /\ UNCHANGED <<frame_cache, run, now>>
    /\ CamUnchanged

NextCam ==
    \/ Tick
    \/ CamStart
    \/ \E ok \in BOOLEAN : RunOpen(ok)
    \/ RunLoop
    \/ \E o \in {"frame", "no frame", "no jpeg"} : RunRead(o)
    \/ RunRelease
    \/ CamStop
    \/ CamJoin
    \/ \E t \in ReadyTimeouts : CamWait(t)
    \/ CamWake
    \/ CamCheckError
    \/ CamCheckReady
    \/ \E op \in {"get", "capture"}, a \in MaxAges : CamGet(op, a)
    \/ CamCheckAge
    \/ \E ok \in BOOLEAN : OneShotOpen(ok)
    \/ \E ok \in BOOLEAN : OneShotRead(ok)

SpecCam == Init /\ [][NextCam]_vars

\* C15: no capture_frame call (the fallback of capture_with_context and of
\* the /frame handler) is in progress while the FrameCache thread is alive
\* and holds the capture device.
C15_NoOneShotDuringSession ==
    ~(/\ client.pc \in {"oneshot", "oneshot_read"}
      /\ frame_cache.thread = "alive"
      /\ run.device)

\* C16: the step that ends get_latest_frame(max_age=X) gives no frame when
\* the cache holds none or when X is given and the frame's age, time() less
\* its timestamp, is greater than X; it gives the cached frame when no X is
\* given or the age is at most X, the age X itself included.
C16_FreshnessWindow ==
    [][(client.pc = "age" /\ client'.pc # "age")
          => LET age == now - client.ts
                 served == client'.pc = "idle" /\ client'.ret = "frame"
                 absent == IF client.op = "get"
                           THEN client'.pc = "idle" /\ client'.ret = "absent"
                           ELSE client'.pc = "oneshot"
             IN /\ client.frame = NoFrame => absent
                /\ (client.frame # NoFrame /\ client.max_age # NoMaxAge
                       /\ age > client.max_age) => absent
                /\ (client.frame # NoFrame
                       /\ (client.max_age = NoMaxAge \/ age <= client.max_age)) => served
                /\ served \/ absent]_vars

\* C16 witness: get_latest_frame has returned a frame whose age was exactly
\* the max_age passed, one second or more.
C16_Witness ==
    /\ client.pc = "idle"
    /\ client.ret = "frame"
    /\ client.max_age = client.age
    /\ client.age >= 1

\* C17: wait_until_ready(timeout) returns normally only when the loop has
\* published a frame and recorded no error; when the loop has recorded the
\* error of a device that cannot be opened, the call raises it; when no frame
\* is published and no error recorded at its end, it raises the timeout
\* error; and it never waits past its deadline.
C17_WaitSurfacesStartup ==
    /\ [][(client.op = "wait" /\ client.pc # "idle" /\ client'.pc = "idle")
             => /\ client'.ret = "ready" => (run.published /\ ~frame_cache.error)
                /\ frame_cache.error => client'.ret = "error"
                /\ (~frame_cache.ready /\ ~frame_cache.error) => client'.ret = "timeout"]_vars
    /\ [](client.pc = "waiting" => now <= client.deadline)

\* C18: when FrameCache.stop() returns, the loop thread is not alive and holds
\* no capture device.
C18_StopJoinsLoop ==
    [][(client.op = "stop" /\ client.pc = "join" /\ client'.pc = "idle")
          => (frame_cache'.thread # "alive" /\ ~run'.device)]_vars

(* ----------------------- audio/recorder.py: SpecRec -------------------- *)
\* a callback that goes on for as long as the queue exists
CallbackRunsWithQueue(r) == r.data_queue

\* the audio callback is invoked while the input stream is started, between
\* self._stream.start() and self._stream.stop()
CallbackRuns(r) == r.stream

\* a join that returns at once
JoinReturnsAtOnce(w) == TRUE

\* self._writer.join() returns when the writer thread has ended
Joined(w) == w.pc = "off"

\* a cleanup that resets the fields and leaves the file where it is
CleanupKeepsFile(r, fs) == [rec |-> RecorderIdle(TRUE), files |-> fs]

\* _cleanup_failed_start(): unlink the destination, reset the fields, set
\* the stop event
CleanupFailedStart(r, fs) ==
    [rec |-> RecorderIdle(TRUE), files |-> fs \ {r.destination}]

RecUnchanged ==
    UNCHANGED <<state, conversation, tool_executor, pc, path, plan, result, response,
                convBefore, jobs, cliVars, ttsVars, camVars, exeVars, planVars, pcmVars, stopVars, uiVars, uiCallVars, directVars, segVars>>

\* RecordingController.start() under its lock, into ContinuousRecorder.start()
\* up to self._writer.start(): the temporary file is created, the queue is
\* new, the stop event is cleared and the writer thread is started
RecStartBegin ==
    /\ rec_call.pc = "idle"
    /\ IF recorder.stream
       THEN /\ rec_call' = NoRecCall(NoPath, "Recording already in progress")
            /\ UNCHANGED <<recorder, files, nextPath, writer, audio>>
       ELSE /\ nextPath <= MaxRecordings
            /\ recorder' = [stream |-> FALSE, writer |-> TRUE, destination |-> nextPath,
                            data_queue |-> TRUE, stop_event |-> FALSE]
            /\ files' = files \cup {nextPath}
            /\ nextPath' = nextPath + 1
            /\ writer' = [pc |-> "opening", path |-> nextPath, written |-> 0]
            /\ audio' = NoAudio
            /\ rec_call' = [pc |-> "open_stream", ret |-> NoPath, exc |-> ""]
    /\ UNCHANGED current_path
    /\ RecUnchanged

\* sd.InputStream(...) and .start(): the stream runs and start() returns the
\* destination, or the except branch sets the stop event
RecStreamOpen(deviceOk) ==
    /\ rec_call.pc = "open_stream"
    /\ IF deviceOk
       THEN /\ recorder' = [recorder EXCEPT !.stream = TRUE]
            /\ current_path' = recorder.destination
            /\ rec_call' = NoRecCall(recorder.destination, "")
       ELSE /\ recorder' = [recorder EXCEPT !.stop_event = TRUE]
            /\ rec_call' = [rec_call EXCEPT !.pc = "fail_join"]
            /\ UNCHANGED current_path
    /\ UNCHANGED <<files, nextPath, writer, audio>>
    /\ RecUnchanged

\* the except branch after the writer has ended: self._writer.join() returns,
\* _cleanup_failed_start(), raise
RecStartFails ==
    /\ rec_call.pc = "fail_join"
    /\ Joined(writer)
    /\ LET o == CleanupFailedStart(recorder, files)
       IN /\ recorder' = o.rec
          /\ files' = o.files
    /\ rec_call' = NoRecCall(NoPath, "device unavailable")
    /\ UNCHANGED <<current_path, nextPath, writer, audio>>
    /\ RecUnchanged

\* RecordingController.stop() under its lock, into ContinuousRecorder.stop():
\* the stream is stopped and closed under the recorder's lock
RecStopBegin ==
    /\ rec_call.pc = "idle"
    /\ IF ~recorder.stream \/ current_path = NoPath \/ recorder.destination = NoPath
       THEN /\ rec_call' = NoRecCall(NoPath, "No recording in progress")
            /\ UNCHANGED recorder
       ELSE /\ rec_call' = [pc |-> "set_stop", ret |-> NoPath, exc |-> ""]
            /\ recorder' = [recorder EXCEPT !.stream = FALSE]
    /\ UNCHANGED <<current_path, files, nextPath, writer, audio>>
    /\ RecUnchanged

\* self._stop_event.set()
RecSetStop ==
    /\ rec_call.pc = "set_stop"
    /\ recorder' = [recorder EXCEPT !.stop_event = TRUE]
    /\ rec_call' = [rec_call EXCEPT !.pc = "stop_join"]
    /\ UNCHANGED <<current_path, files, nextPath, writer, audio>>
    /\ RecUnchanged

\* self._writer.join() returns; the fields are reset and the destination is
\* returned
RecStopEnd ==
    /\ rec_call.pc = "stop_join"
    /\ Joined(writer)
    /\ recorder' = [recorder EXCEPT !.writer = FALSE, !.data_queue = FALSE,
                                    !.destination = NoPath]
    /\ current_path' = NoPath
    /\ rec_call' = NoRecCall(recorder.destination, "")
    /\ UNCHANGED <<files, nextPath, writer, audio>>
    /\ RecUnchanged

\* the stream calls callback(indata, ...): self._data_queue.put(indata.copy())
CallbackPut ==
    /\ CallbackRuns(recorder)
    /\ recorder.data_queue
    /\ audio.put < MaxChunks
    /\ audio' = [queue |-> audio.queue + 1, put |-> audio.put + 1]
    /\ UNCHANGED <<recorder, current_path, files, nextPath, rec_call, writer>>
    /\ RecUnchanged

\* _writer_thread: sf.SoundFile(file_path, mode="w") creates the file
WriterOpen ==
    /\ writer.pc = "opening"
    /\ files' = files \cup {writer.path}
    /\ writer' = [writer EXCEPT !.pc = "loop"]
    /\ UNCHANGED <<recorder, current_path, nextPath, rec_call, audio>>
    /\ RecUnchanged

\* `while not stop_event.is_set() or not data_queue.empty()`: a chunk is
\* taken off the queue, or the loop is over and the file is closed
WriterLoop ==
    /\ writer.pc = "loop"
    /\ IF audio.queue > 0
       THEN /\ audio' = [audio EXCEPT !.queue = @ - 1]
            /\ writer' = [writer EXCEPT !.pc = "got"]
       ELSE /\ recorder.stop_event
            /\ writer' = [writer EXCEPT !.pc = "off"]
            /\ UNCHANGED audio
    /\ UNCHANGED <<recorder, current_path, files, nextPath, rec_call>>
    /\ RecUnchanged

\* audio_file.write(chunk)
WriterWrite ==
    /\ writer.pc = "got"
    /\ writer' = [writer EXCEPT !.pc = "loop", !.written = @ + 1]
    /\ UNCHANGED <<recorder, current_path, files, nextPath, rec_call, audio>>
    /\ RecUnchanged

NextRec ==
    \/ RecStartBegin
    \/ \E ok \in BOOLEAN : RecStreamOpen(ok)
    \/ RecStartFails
    \/ RecStopBegin
    \/ RecSetStop
    \/ RecStopEnd
    \/ CallbackPut
    \/ WriterOpen
    \/ WriterLoop
    \/ WriterWrite

SpecRec == Init /\ [][NextRec]_vars

\* C19: the step with which a start() ends after the input device failed
\* raises the failure to the caller; the writer thread has ended by then, the
\* destination file is not on disk any more, and the recorder and the
\* controller are idle: no stream, no writer, no queue, no destination, no
\* current path; so the next start() is not refused.
C19_FailedStartRollsBack ==
    [][(rec_call.pc = "fail_join" /\ rec_call'.pc = "idle")
          => /\ rec_call'.exc = "device unavailable"
             /\ rec_call'.ret = NoPath
             /\ writer'.pc = "off"
             /\ writer'.path \notin files'
             /\ recorder.destination \notin files'
             /\ ~recorder'.stream /\ ~recorder'.writer /\ ~recorder'.data_queue
             /\ recorder'.destination = NoPath
             /\ current_path' = NoPath]_vars

\* C19 witness: after a start() that failed and whose file is gone, a later
\* start() has succeeded and records to the next file.
C19_Witness ==
    /\ recorder.stream
    /\ recorder.destination = 2
    /\ current_path = 2
    /\ 1 \notin files
    /\ 2 \in files

\* C20: the step with which a stop() returns finds the writer thread ended
\* and the queue empty, every chunk the callback put on the queue during the
\* session written to the writer's file, and returns that file, the
\* session's destination, which is on disk.
C20_StopFlushesEveryChunk ==
    [][(rec_call.pc = "stop_join" /\ rec_call'.pc = "idle")
          => /\ writer'.pc = "off"
             /\ audio'.queue = 0
             /\ writer'.written = audio'.put
             /\ rec_call'.ret = writer'.path
             /\ rec_call'.ret = recorder.destination
             /\ rec_call'.ret \in files'
             /\ rec_call'.exc = ""]_vars

\* C20 witness: a stop() has returned the file of a session in which the
\* callback put two chunks, both written.
C20_Witness ==
    /\ rec_call.pc = "idle"
    /\ rec_call.ret # NoPath
    /\ rec_call.ret = writer.path
    /\ audio.put = 2
    /\ writer.written = 2
    /\ ~recorder.stream

\* the writer thread is running; it has the file open from its SoundFile(...)
\* to the end of the `with`
WriterAlive == writer.pc # "off"
FileOpen == writer.pc \in {"loop", "got"}

C22_SilenceEndsTurn ==
    [][\A h \in Handlers :
         Transcribe(h, "empty")
            => /\ pc'[h] = "idle"
               /\ response' = Error(SilenceMessage)
               /\ state'.mode = "idle"
               /\ ~state'.talk_recording_active
               /\ conversation' = conversation
               /\ jobs' = jobs
               /\ tool_executor' = tool_executor]_vars

\* C22 witness: a silent turn has just ended, after an earlier turn that
\* left its two entries in the log.
C22_Witness ==
    /\ response = Error(SilenceMessage)
    /\ \A h \in Handlers : pc[h] = "idle"
    /\ Len(conversation) = 3
    /\ state.mode = "idle"

\* C23: the step of a turn whose transcript is an exit phrase ends that
\* turn without a change to the conversation log or a job for the executor,
\* and while the last answer given is that of an exit turn no thread moves
\* on to the model calls or to the answer with its speech and tool dispatch.
C23_ExitEndsSession ==
    /\ [][\A h \in Handlers :
            Transcribe(h, "exit")
               => /\ pc'[h] = "idle"
                  /\ conversation' = conversation
                  /\ jobs' = jobs]_vars
    /\ [][response.error = ExitMessage
            => \A h \in Handlers :
                  pc[h] \notin {"plan", "stream", "respond"}
                     => pc'[h] \notin {"plan", "stream", "respond"}]_vars

(* ------------------ callbacks of a job: SpecExec ------------------------ *)
\* How often _execute_plan hands the job's result map to a callback: the
\* only callback it has is status_callback, which gets the status texts; the
\* map is the coroutine's return value, left in the future that submit drops.
ResultCallbackCalls(J) == 0

\* whether a task of the job has returned something
ProducedOutput(J) == \E i \in DOMAIN J.tasks : J.tasks[i].st = "returned"

\* C24: a job that was submitted with its callbacks and has ended after all
\* its tasks has handed its result map to a callback exactly once if a task
\* returned something, and never otherwise or earlier.
C24_ResultCallbackFiresOnce ==
    \A j \in 1..Len(jobs) :
        LET J == jobs[j]
        IN /\ (J.callback /\ J.pc = "done" /\ ProducedOutput(J))
                 => ResultCallbackCalls(J) = 1
           /\ (J.pc # "done" \/ ~ProducedOutput(J)) => ResultCallbackCalls(J) = 0

\* the "Running ..." statuses in a job's log
RunningCount(J) == Cardinality({m \in DOMAIN J.log : StartsWithRunning(J.log[m])})
Ended(J) == \E i \in DOMAIN J.tasks : J.tasks[i].st \in {"returned", "raised"}

\* C25 as stated: a job with calls and a status callback that the loop has
\* started has reported exactly one "Running ..." status, and no task of a
\* job has ended before it.
C25_RunningOncePerJob ==
    \A j \in 1..Len(jobs) :
        LET J == jobs[j]
        IN (J.callback /\ J.calls # <<>>)
              => /\ J.pc # "scheduled" => RunningCount(J) = 1
                 /\ Ended(J) => RunningCount(J) >= 1

\* C25 as amended: a job with N >= 1 calls and a status callback that the
\* loop has started has reported one "Running <tool>..." status per call, the
\* N of them in the order of the calls and before any other status, and no
\* task of the job has ended before all N were reported; a job the loop has
\* not started has reported nothing and none of its tasks has ended.
C25_RunningOncePerCall ==
    \A j \in 1..Len(jobs) :
        LET J == jobs[j]
            N == Len(J.calls)
        IN (J.callback /\ N >= 1)
              => /\ J.pc = "scheduled" => (J.log = <<>> /\ ~Ended(J))
                 /\ J.pc # "scheduled"
                      => /\ Len(J.log) >= N
                         /\ \A i \in 1..N : J.log[i] = RunningMessage(J.calls[i].tool)
                         /\ RunningCount(J) = N
                 /\ Ended(J) => RunningCount(J) = N

\* C25 witness: a job with two calls has reported its two "Running ..."
\* statuses and nothing else, and one of its tasks has ended.
C25_Witness ==
    \E j \in 1..Len(jobs) :
        /\ jobs[j].callback
        /\ Len(jobs[j].calls) = 2
        /\ Len(jobs[j].log) = 2
        /\ Ended(jobs[j])
        /\ \E i \in 1..2 : jobs[j].tasks[i].st = "running"

\* C26: a job that has ended with one web_search call and one segmentation
\* call under different keys, submitted with a fallback image path, has a
\* result map of exactly the two keys: the query holds the list the search
\* returned and the prompt holds the one record the segmentation request
\* returned, the service's answer or its error, whatever the other call did.
C26_TwoKeysResolvedIndependently ==
    \A j \in 1..Len(jobs) :
        LET J == jobs[j]
        IN \A w, g \in DOMAIN J.calls :
              (/\ J.pc = "done"
               /\ Len(J.calls) = 2
               /\ J.image
               /\ J.calls[w].tool = "web_search"
               /\ J.calls[g].tool = "segmentation"
               /\ J.calls[w].key # J.calls[g].key)
                 => /\ DOMAIN J.collected = {J.calls[w].key, J.calls[g].key}
                    /\ J.collected[J.calls[w].key] = ListItems(J.tasks[w].val)
                    /\ J.collected[J.calls[g].key] = <<J.tasks[g].val>>
                    /\ J.tasks[g].val \in {"masks", "error"}
                    /\ \E r \in J.requests : r.call = g

\* C26 witness: such a job has ended with the segmentation request failed
\* and the segmentation call first in the plan.
C26_Witness ==
    \E j \in 1..Len(jobs) :
        /\ jobs[j].pc = "done"
        /\ jobs[j].image
        /\ Len(jobs[j].calls) = 2
        /\ jobs[j].calls[1].tool = "segmentation"
        /\ jobs[j].calls[2].tool = "web_search"
        /\ jobs[j].calls[1].key # jobs[j].calls[2].key
        /\ jobs[j].tasks[1].val = "error"
        /\ DOMAIN jobs[j].collected = {"q1", "q2"}

(* ------------------- tool_executor.py: shutdown, SpecShut -------------- *)
ExecutorJoinTimeout == 2

\* a call submit(plan, screenshot_path, status_callback=f)
CallbackShape == [n |-> 2, kw |-> {"status_callback"}]

ShutUnchanged == UNCHANGED <<coreVars, ttsVars, camVars, recVars, planVars, pcmVars, stopVars, uiVars, uiCallVars, directVars, segVars>>

\* shutdown() up to the join: self._loop.call_soon_threadsafe(self._loop.stop)
\* puts loop.stop behind what the loop was handed so far
ShutdownCall ==
    /\ executor_loop.call = "none"
    /\ executor_loop' = [executor_loop EXCEPT !.stop = TRUE, !.queued = Len(jobs),
                                    !.call = "join", !.waited = 0]
    /\ ShutUnchanged

\* the loop thread gets to loop.stop: run_forever returns and the thread ends
LoopStop ==
    /\ executor_loop.loop = "running"
    /\ executor_loop.stop
    /\ executor_loop' = [executor_loop EXCEPT !.loop = "stopped"]
    /\ ShutUnchanged

\* a second of self._thread.join(timeout=2) passes with the thread alive
ShutdownWait ==
    /\ executor_loop.call = "join"
    /\ executor_loop.loop = "running"
    /\ executor_loop.waited < ExecutorJoinTimeout
    /\ executor_loop' = [executor_loop EXCEPT !.waited = @ + 1]
    /\ ShutUnchanged

\* the join returns, the thread having ended or the two seconds being over,
\* and shutdown() with it
ShutdownReturn ==
    /\ executor_loop.call = "join"
    /\ executor_loop.loop = "stopped" \/ executor_loop.waited = ExecutorJoinTimeout
    /\ executor_loop' = [executor_loop EXCEPT !.call = "returned"]
    /\ ShutUnchanged

NextShut ==
    \/ \E c \in ToolCallListsOneKey : ExecSubmit(c, CallbackShape)
    \/ \E j \in 1..MaxJobs : JobStart(j)
    \/ \E j \in 1..Len(jobs) :
          \E i \in DOMAIN jobs[j].calls :
             \E o \in ToolOutcomes(jobs[j].calls[i].tool, TRUE) : TaskEnd(j, i, o, "none")
    \/ \E j \in 1..MaxJobs : JobFinish(j)
    \/ \E j \in 1..MaxJobs : JobRaise(j)
    \/ ShutdownCall
    \/ LoopStop
    \/ ShutdownWait
    \/ ShutdownReturn

SpecShut == Init /\ [][NextShut]_vars

\* a job of which nothing has run
Untouched(J) ==
    /\ J.pc = "scheduled"
    /\ J.log = <<>>
    /\ \A i \in DOMAIN J.tasks : J.tasks[i].st = "pending"

\* C27: the join of shutdown() never waits longer than its two seconds, and
\* once they are over shutdown() can return whatever the jobs are doing;
\* once the loop has stopped no job changes any more and no status reaches
\* the session state (a fetch already handed to a worker thread ends there,
\* its result reaching no one); and of a job that was submitted after
\* shutdown() asked the loop to stop nothing ever runs.
C27_ShutdownBoundedAndFinal ==
    /\ [](executor_loop.waited <= ExecutorJoinTimeout)
    /\ []((executor_loop.call = "join" /\ executor_loop.waited = ExecutorJoinTimeout)
             => ENABLED ShutdownReturn)
    /\ [][executor_loop.loop = "stopped"
            => /\ state' = state
               /\ \A j \in 1..Len(jobs) : jobs'[j] = jobs[j]
               /\ executor_loop'.loop = "stopped"]_vars
    /\ [](\A j \in 1..Len(jobs) :
             (executor_loop.stop /\ j > executor_loop.queued) => Untouched(jobs[j]))

\* C27 witness: shutdown() has returned after the full wait with the loop
\* thread still alive; a job with a running task was in flight, and a job
\* submitted after the call has not started.
C27_Witness ==
    /\ executor_loop.call = "returned"
    /\ executor_loop.waited = ExecutorJoinTimeout
    /\ Len(jobs) = 2
    /\ executor_loop.queued = 1
    /\ jobs[1].pc = "gathering"
    /\ \E i \in DOMAIN jobs[1].tasks : jobs[1].tasks[i].st = "running"
    /\ Len(jobs[2].calls) >= 1

(* ---------------------- the conversation log: Spec --------------------- *)
\* C28: every step that changes the conversation log either appends one
\* entry to it or removes its last entry, and a removal is made by a thread
\* that ends its turn with it and takes away the user entry of that thread's
\* own turn; the system entry stays first in the log.
C28_LogAppendOnly ==
    /\ [](Len(conversation) >= 1 /\ conversation[1] = SystemEntry)
    /\ [][conversation' # conversation
            => \/ /\ Len(conversation') = Len(conversation) + 1
                  /\ SubSeq(conversation', 1, Len(conversation)) = conversation
               \/ /\ Len(conversation) > 1
                  /\ conversation' = Pop(conversation)
                  /\ \E h \in Handlers :
                        /\ pc[h] \in ProcessingPcs
                        /\ pc'[h] = "idle"
                        /\ conversation[Len(conversation)] = UserEntry(path[h])]_vars

(* ------------------- assistant_plan.py: ToolCall, SpecPlan ------------- *)
\* Python's None among the values of a dict; texts and lists are told apart
\* by a number from 1 on
PyNone == -1

\* a field of a pydantic model: required (Field(...)), or with a default and,
\* for the two limits, the bounds ge and le
RequiredField == [required |-> TRUE, default |-> PyNone, ranged |-> FALSE, ge |-> 0, le |-> 0]
OptionalField == [required |-> FALSE, default |-> PyNone, ranged |-> FALSE, ge |-> 0, le |-> 0]
LimitField(d) == [required |-> FALSE, default |-> d, ranged |-> TRUE, ge |-> 1, le |-> 10]

Sam3Input ==
    [prompt |-> RequiredField, image_path |-> OptionalField,
     base64_image |-> OptionalField, synonyms |-> OptionalField]
WebSearchInput == [query |-> RequiredField, max_results |-> LimitField(5)]
IFixitInput == [query |-> RequiredField, limit |-> LimitField(3)]

\* ToolInput: every field of every tool, each Optional with default None and
\* no bounds; extra="forbid" lets no other field in
ToolInputFields ==
    {"prompt", "image_path", "base64_image", "synonyms", "query", "max_results", "limit"}

\* the values the model's answer gives a field: one text (or list) for the
\* text fields, a number below, inside and above 1..10 for the two limits
FieldValues(f) == IF f \in {"max_results", "limit"} THEN {0, 7, 11} ELSE {1}

\* self.input.model_dump(exclude_none=True) of every ToolInput: the dicts
\* over the fields that are not None
Payloads ==
    UNION {{p \in [D -> {0, 1, 7, 11}] : \A f \in D : p[f] \in FieldValues(f)} :
             D \in SUBSET ToolInputFields}

ValidationError == [st |-> "rejected", input |-> NoDict]

\* a model with extra="allow": the fields it does not declare are kept
ModelValidateAllowsExtra(schema, payload) ==
    IF \E f \in DOMAIN schema : schema[f].required /\ f \notin DOMAIN payload
    THEN ValidationError
    ELSE IF \E f \in DOMAIN schema \cap DOMAIN payload :
               schema[f].ranged /\ ~(schema[f].ge <= payload[f] /\ payload[f] <= schema[f].le)
    THEN ValidationError
    ELSE [st |-> "valid",
          input |-> [f \in DOMAIN schema \cup DOMAIN payload |->
                        IF f \in DOMAIN payload THEN payload[f] ELSE schema[f].default]]

\* X.model_validate(payload).model_dump(): a required field that is missing
\* or a limit outside its bounds raises; fields the model does not declare
\* are ignored (pydantic's default); the dump has every declared field, with
\* its default where the payload had none
ModelValidate(schema, payload) ==
    IF \E f \in DOMAIN schema : schema[f].required /\ f \notin DOMAIN payload
    THEN ValidationError
    ELSE IF \E f \in DOMAIN schema \cap DOMAIN payload :
               schema[f].ranged /\ ~(schema[f].ge <= payload[f] /\ payload[f] <= schema[f].le)
    THEN ValidationError
    ELSE [st |-> "valid",
          input |-> [f \in DOMAIN schema |->
                        IF f \in DOMAIN payload THEN payload[f] ELSE schema[f].default]]

\* ToolCall.validate_input_payload
ValidateInputPayload(tool, payload) ==
    CASE tool = "segmentation" -> ModelValidate(Sam3Input, payload)
      [] tool = "web_search" -> ModelValidate(WebSearchInput, payload)
      [] OTHER -> ModelValidate(IFixitInput, payload)

PlanUnchanged == UNCHANGED <<coreVars, ttsVars, camVars, recVars, exeVars, pcmVars, stopVars, uiVars, uiCallVars, directVars, segVars>>

\* pydantic builds the ToolCall's fields from the model's answer: tool is one
\* of the three literals and input a ToolInput
ParseToolCall(tool, payload) ==
    /\ tool_call.st = "none"
    /\ tool_call' = [st |-> "parsed", tool |-> tool, raw |-> payload, input |-> payload]
    /\ PlanUnchanged

\* the model_validator(mode="after") runs
RunValidator ==
    /\ tool_call.st = "parsed"
    /\ LET v == ValidateInputPayload(tool_call.tool, tool_call.raw)
       IN tool_call' = [tool_call EXCEPT !.st = v.st, !.input = v.input]
    /\ PlanUnchanged

NextPlan ==
    \/ \E t \in Tools, p \in Payloads : ParseToolCall(t, p)
    \/ RunValidator

SpecPlan == Init /\ [][NextPlan]_vars

\* C29: a ToolCall that passed validation has as its input a dict of exactly
\* the fields of its tool's model (segmentation: prompt, image_path,
\* base64_image, synonyms; web_search: query, max_results; ifixit_tutorials:
\* query, limit), each with the value the payload gave it; and a ToolCall
\* whose payload lacks its tool's required field (prompt for segmentation,
\* query for the other two) does not pass.
C29_InputDowncastToToolFields ==
    LET T == tool_call
        own == CASE T.tool = "segmentation" ->
                       {"prompt", "image_path", "base64_image", "synonyms"}
                 [] T.tool = "web_search" -> {"query", "max_results"}
                 [] OTHER -> {"query", "limit"}
        need == IF T.tool = "segmentation" THEN "prompt" ELSE "query"
    IN /\ T.st = "valid"
            => /\ DOMAIN T.input = own
               /\ \A f \in own \cap DOMAIN T.raw : T.input[f] = T.raw[f]
               /\ need \in DOMAIN T.raw
       /\ (T.st \in {"valid", "rejected"} /\ need \notin DOMAIN T.raw)
            => T.st = "rejected"

\* C29 witness: a segmentation call whose payload also carried a query and a
\* limit has passed validation.
C29_Witness ==
    /\ tool_call.st = "valid"
    /\ tool_call.tool = "segmentation"
    /\ {"prompt", "query", "limit"} \subseteq DOMAIN tool_call.raw
    /\ "image_path" \notin DOMAIN tool_call.raw

(* ------------------- the turn's audio file: Spec ----------------------- *)
\* C30: a thread that is at the transcription has its turn's audio file on
\* disk; the step that takes it past the transcription, with a transcript,
\* with none, or with an exception, removes that file; and at no later step
\* of the turn is the file there.
C30_AudioFileDeletedAfterTranscription ==
    /\ [](\A h \in Handlers :
             /\ pc[h] = "transcribe" => path[h] \in files
             /\ pc[h] \in ProcessingPcs \ {"transcribe"} => path[h] \notin files)
    /\ [][\A h \in Handlers :
            (pc[h] = "transcribe" /\ pc'[h] # "transcribe") => path[h] \notin files']_vars

\* C30 witness: a turn is at the planning call, past a transcription that
\* gave text, and its audio file is gone.
C30_Witness ==
    \E h \in Handlers :
        /\ pc[h] = "plan"
        /\ path[h] # NoPath
        /\ path[h] \notin files

(* --------- text_to_speech.py: _stream_pcm_to_device, SpecPcm ----------- *)
\* the bytes of a stream are numbered in arrival order from 1; the pad is 0
PadByte == 0
Bytes(from, n) == [i \in 1..n |-> from + i]

\* chunk[:-remainder] / chunk[-remainder:] of leftover + chunk, with
\* remainder = len % 2; an even chunk is playable whole
SplitBytes(leftover, chunk) ==
    LET joined == leftover \o chunk
        size == Len(joined)
        remainder == size % 2
    IN [playable |-> SubSeq(joined, 1, size - remainder),
        leftover |-> SubSeq(joined, size - remainder + 1, size)]

\* an end of stream that forgets the byte left over
PadDropped(leftover) == <<>>

\* padded = leftover + b"\x00" * (2 - len(leftover))
Padded(leftover) == leftover \o [i \in 1..(2 - Len(leftover)) |-> PadByte]

PcmUnchanged == UNCHANGED <<coreVars, ttsVars, camVars, recVars, exeVars, planVars, stopVars, uiVars, uiCallVars, directVars, segVars>>

\* iter_bytes() yields a chunk of n bytes: `if chunk:` joins it to the
\* leftover, keeps the odd byte and writes the playable part if there is one
PcmChunk(n) ==
    /\ pcm.pc = "iter"
    /\ pcm.chunks < MaxPcmChunks
    /\ LET c == IF n = 0 THEN [playable |-> <<>>, leftover |-> pcm.leftover]
                ELSE SplitBytes(pcm.leftover, Bytes(pcm.received, n))
       IN pcm' = [pcm EXCEPT !.chunks = @ + 1,
                             !.received = @ + n,
                             !.leftover = c.leftover,
                             !.writes = IF c.playable # <<>> THEN Append(@, c.playable)
                                        ELSE @]
    /\ PcmUnchanged

\* iter_bytes() is exhausted: `if leftover:` pads and writes it, and the
\* output stream is closed
PcmEnd ==
    /\ pcm.pc = "iter"
    /\ pcm' = [pcm EXCEPT !.pc = "closed",
                          !.leftover = <<>>,
                          !.writes = IF pcm.leftover # <<>>
                                     THEN Append(@, Padded(pcm.leftover)) ELSE @]
    /\ PcmUnchanged

NextPcm ==
    \/ \E n \in 0..MaxChunkLen : PcmChunk(n)
    \/ PcmEnd

SpecPcm == Init /\ [][NextPcm]_vars

\* everything written so far, in the order of the writes
RECURSIVE Flatten(_)
Flatten(ws) == IF ws = <<>> THEN <<>> ELSE Head(ws) \o Flatten(Tail(ws))

\* C31: every write to the output device has an even, positive number of
\* bytes; what was written so far, followed by the byte left over, is what
\* was received so far, byte for byte in arrival order; and when the stream
\* has ended what was written is what was received, followed by one zero
\* byte if the number received was odd.
C31_EvenWritesInArrivalOrder ==
    /\ \A w \in DOMAIN pcm.writes : Len(pcm.writes[w]) % 2 = 0 /\ Len(pcm.writes[w]) > 0
    /\ pcm.pc = "iter"
          => Flatten(pcm.writes) \o pcm.leftover = Bytes(0, pcm.received)
    /\ pcm.pc = "closed"
          => Flatten(pcm.writes) =
                Bytes(0, pcm.received) \o (IF pcm.received % 2 = 1 THEN <<PadByte>> ELSE <<>>)

\* C31 witness: a stream of an odd number of bytes, in which an odd byte was
\* carried from one chunk into the next, has ended with its last byte padded.
C31_Witness ==
    /\ pcm.pc = "closed"
    /\ pcm.received = 5
    /\ Len(pcm.writes) = 3
    /\ pcm.writes[3] = <<5, PadByte>>
    /\ pcm.writes[1] = <<1, 2>>

(* ------------------ frame and timestamp: SpecCam ------------------------ *)
Paired(frame, ts) == frame # NoFrame => frame = FrameId(ts)

\* C32: the frame the cache holds and the timestamp it holds belong
\* together, and so do the frame and the timestamp a reader took out under
\* the lock, whatever the refresh loop stored in between; a store replaces
\* the one slot by the newest frame and its time; and the reader's answer is
\* the frame it took, judged by that frame's own timestamp.
C32_FrameAndTimestampTogether ==
    /\ [](Paired(frame_cache.latest_frame, frame_cache.latest_ts)
            /\ Paired(client.frame, client.ts))
    /\ [][(run.pc = "read" /\ <<frame_cache'.latest_frame, frame_cache'.latest_ts>>
                                  # <<frame_cache.latest_frame, frame_cache.latest_ts>>)
            => /\ frame_cache'.latest_frame = FrameId(now)
               /\ frame_cache'.latest_ts = now]_vars
    /\ [][(client.pc = "age" /\ client'.pc = "idle" /\ client'.ret = "frame")
            => /\ client.frame # NoFrame
               /\ client'.age = now - client.ts
               /\ client.max_age # NoMaxAge => now - client.ts <= client.max_age]_vars

\* C32 witness: a reader holds a frame and its timestamp while the loop has
\* already stored a newer frame.
C32_Witness ==
    /\ client.pc = "age"
    /\ client.frame # NoFrame
    /\ frame_cache.latest_ts > client.ts
    /\ frame_cache.latest_frame # client.frame

(* ------------------- a stop after the kick-off: SpecTts ----------------- *)
\* C33: a stop_speech() called once the worker thread of a playback is in
\* speak_text stays in force for that playback: the flag is set for as long
\* as the call runs, and the call does not end as played.
C33_StopAfterKickOffNotLost ==
    /\ [](\A s \in stop_requested : stop_tts_event)
    /\ [][\A s \in stop_requested :
            (speak[s].pc # "idle" /\ speak'[s].pc = "idle")
               => speak'[s].last # "played"]_vars

(* ------------------- the UI's frames, mx_server.py: SpecUi -------------- *)
\* the max_age values of the two callers, in ticks of the clock
UiMaxAges == {1, 2}

\* the time at which the frame arrived
ArrivalTime(frame) == frame - 1

\* _get_ui_frame_bytes once data and ts are read: time is current_time()
GetUiFrameBytes(data, ts, time, maxAge) ==
    IF data = NoFrame THEN NoFrame
    ELSE IF (time - ts) > maxAge THEN NoFrame
    ELSE data

UiUnchanged ==
    UNCHANGED <<coreVars, ttsVars, frame_cache, run, client, recVars, exeVars, planVars,
                pcmVars, stopVars, directVars, segVars>>

\* time passes; the listener's two writes are adjacent statements and no
\* tick of the clock falls between them
UiTick ==
    /\ now < MaxTime
    /\ ui_call.listener = "poll"
    /\ now' = now + 1
    /\ UNCHANGED <<ui_frame, ui_call>>
    /\ UiUnchanged

\* _frame_listener: a frame arrives; _ui_frame["data"] = payload
ListenerData ==
    /\ ui_call.listener = "poll"
    /\ ui_frame' = [ui_frame EXCEPT !.data = FrameId(now)]
    /\ ui_call' = [ui_call EXCEPT !.listener = "stamp"]
    /\ UNCHANGED now
    /\ UiUnchanged

\* _frame_listener: _ui_frame["ts"] = current_time()
ListenerTs ==
    /\ ui_call.listener = "stamp"
    /\ ui_frame' = [ui_frame EXCEPT !.ts = now]
    /\ ui_call' = [ui_call EXCEPT !.listener = "poll"]
    /\ UNCHANGED now
    /\ UiUnchanged

\* _get_ui_frame_bytes(max_age): data = _ui_frame.get("data")
UiGetData(maxAge) ==
    /\ ui_call.pc = "idle"
    /\ ui_call' = [ui_call EXCEPT !.pc = "ts", !.max_age = maxAge,
                                  !.data = ui_frame.data, !.ts = 0,
                                  !.ret = NoFrame, !.at = 0]
    /\ UNCHANGED <<ui_frame, now>>
    /\ UiUnchanged

\* ts = _ui_frame.get("ts", 0.0)
UiGetTs ==
    /\ ui_call.pc = "ts"
    /\ ui_call' = [ui_call EXCEPT !.pc = "age", !.ts = ui_frame.ts]
    /\ UNCHANGED <<ui_frame, now>>
    /\ UiUnchanged

\* the two tests and the return
UiCheckAge ==
    /\ ui_call.pc = "age"
    /\ ui_call' = [ui_call EXCEPT !.pc = "idle", !.at = now,
                                  !.ret = GetUiFrameBytes(ui_call.data, ui_call.ts, now,
                                                          ui_call.max_age)]
    /\ UNCHANGED <<ui_frame, now>>
    /\ UiUnchanged

NextUi ==
    \/ UiTick
    \/ ListenerData
    \/ ListenerTs
    \/ \E a \in UiMaxAges : UiGetData(a)
    \/ UiGetTs
    \/ UiCheckAge

SpecUi == Init /\ [][NextUi]_vars

\* C34: the frame _get_ui_frame_bytes(max_age) returned had, at the time of
\* the call's test, arrived no longer than max_age ago.
C34_UiFrameNeverStale ==
    (ui_call.pc = "idle" /\ ui_call.ret # NoFrame)
       => ui_call.at - ArrivalTime(ui_call.ret) <= ui_call.max_age

C36_WaitReportsLatestStart ==
    [][(client.op = "wait" /\ client.pc # "idle" /\ client'.pc = "idle"
          /\ run.published)
         => client'.ret = "ready"]_vars

(* ---------------------- a start after a stop: SpecCam ------------------- *)
\* C37: from the return of start() until the next call on the FrameCache,
\* either the loop thread is alive and has not been told to stop, or an
\* error has been recorded.
C37_StartLeavesRunningLoop ==
    (client.pc = "idle" /\ client.ret = "started")
       => \/ frame_cache.error
          \/ frame_cache.thread = "alive" /\ ~frame_cache.stop

(* ------------- audio/recorder.py called directly: SpecDirect ------------ *)
DirectUnchanged ==
    UNCHANGED <<coreVars, ttsVars, camVars, recVars, exeVars, planVars, pcmVars, stopVars,
                uiVars, uiCallVars, segVars>>

\* the thread's record changes, with the recorder's fields as given
DirectStep(t, call, fields) ==
    /\ direct' = [fields EXCEPT !.th[t] = call]
    /\ DirectUnchanged

\* start() takes the lock: with a stream open it raises; else the
\* destination is resolved, the queue is new, the stop event is cleared and
\* the writer thread is started
DirectStartBegin(t) ==
    /\ direct.th[t].pc = "idle"
    /\ direct.lock = NoThread
    /\ IF direct.stream # NoPath
       THEN DirectStep(t, NoDirectCall("start", NoPath, "Recording already in progress",
                                       NoPath), direct)
       ELSE /\ direct.next <= MaxRecordings
            /\ DirectStep(t, [pc |-> "open_stream", op |-> "start", ret |-> NoPath,
                              exc |-> "", session |-> direct.next, joining |-> NoPath],
                          [direct EXCEPT !.lock = t, !.destination = direct.next,
                                         !.data_queue = direct.next,
                                         !.stop_event = FALSE,
                                         !.writer = direct.next,
                                         !.writers[direct.next] = "running",
                                         !.next = @ + 1])

\* sd.InputStream(...).start() succeeds and start() returns
\* self._destination, or the except branch sets the stop event and joins
\* self._writer
DirectStreamOpen(t, deviceOk) ==
    /\ direct.th[t].pc = "open_stream"
    /\ IF deviceOk
       THEN DirectStep(t, NoDirectCall("start", direct.destination, "",
                                       direct.th[t].session),
                       [direct EXCEPT !.stream = direct.th[t].session,
                                      !.lock = NoThread])
       ELSE DirectStep(t, [direct.th[t] EXCEPT !.pc = "fail_join",
                                               !.joining = direct.writer],
                       [direct EXCEPT !.stop_event = TRUE])

\* the join returns; _cleanup_failed_start(), raise
DirectStartFails(t) ==
    /\ direct.th[t].pc = "fail_join"
    /\ direct.th[t].joining # NoPath => direct.writers[direct.th[t].joining] = "ended"
    /\ DirectStep(t, NoDirectCall("start", NoPath, "device unavailable", NoPath),
                  [direct EXCEPT !.destination = NoPath, !.data_queue = NoPath,
                                 !.writer = NoPath, !.stream = NoPath,
                                 !.stop_event = TRUE, !.lock = NoThread])

\* stop() under the lock: without a stream or a destination it raises; else
\* the stream is stopped and closed, and the `with self._lock:` block ends
DirectStopBegin(t) ==
    /\ direct.th[t].pc = "idle"
    /\ direct.lock = NoThread
    /\ IF direct.stream = NoPath \/ direct.destination = NoPath
       THEN DirectStep(t, NoDirectCall("stop", NoPath, "No recording in progress", NoPath),
                       direct)
       ELSE DirectStep(t, [pc |-> "set_stop", op |-> "stop", ret |-> NoPath, exc |-> "",
                           session |-> direct.stream, joining |-> NoPath],
                       [direct EXCEPT !.stream = NoPath])

\* self._stop_event.set(), and self._writer is read for the join
DirectSetStop(t) ==
    /\ direct.th[t].pc = "set_stop"
    /\ DirectStep(t, [direct.th[t] EXCEPT !.pc = "stop_join", !.joining = direct.writer],
                  [direct EXCEPT !.stop_event = TRUE])

\* the join returns; the fields are reset and self._destination is returned
DirectStopEnd(t) ==
    /\ direct.th[t].pc = "stop_join"
    /\ direct.th[t].joining # NoPath => direct.writers[direct.th[t].joining] = "ended"
    /\ DirectStep(t, NoDirectCall("stop", direct.destination, "", direct.th[t].session),
                  [direct EXCEPT !.writer = NoPath, !.data_queue = NoPath,
                                 !.destination = NoPath])

\* _writer_thread of session n finds the stop event set and its queue empty
DirectWriterEnds(n) ==
    /\ direct.writers[n] = "running"
    /\ direct.stop_event
    /\ direct' = [direct EXCEPT !.writers[n] = "ended"]
    /\ DirectUnchanged

NextDirect ==
    \/ \E t \in RecorderThreads : DirectStartBegin(t)
    \/ \E t \in RecorderThreads, ok \in BOOLEAN : DirectStreamOpen(t, ok)
    \/ \E t \in RecorderThreads : DirectStartFails(t)
    \/ \E t \in RecorderThreads : DirectStopBegin(t)
    \/ \E t \in RecorderThreads : DirectSetStop(t)
    \/ \E t \in RecorderThreads : DirectStopEnd(t)
    \/ \E n \in 1..MaxRecordings : DirectWriterEnds(n)

SpecDirect == Init /\ [][NextDirect]_vars

\* is_recording()
IsRecording(d) == d.stream # NoPath

\* C38: a stop() that returned gave the destination of the session whose
\* stream it stopped; the writer of a session whose stream is open has not
\* been halted; and with no call in progress, is_recording() is true only if
\* stop() finds a recording to stop.
C38_StopKeepsToItsSession ==
    /\ \A t \in RecorderThreads :
          (direct.th[t].pc = "idle" /\ direct.th[t].op = "stop" /\ direct.th[t].exc = "")
             => direct.th[t].ret = direct.th[t].session
    /\ \A n \in 1..MaxRecordings :
          direct.stream = n => direct.writers[n] = "running"
    /\ ((\A t \in RecorderThreads : direct.th[t].pc = "idle") /\ IsRecording(direct))
          => direct.destination # NoPath

(* ---- the image a segmentation call sends, tool_executor.py and ---------- *)
(* ---- assistant_plan_validator.py: SpecSeg ------------------------------ *)
\* the image source in a request body: the plan's image_path, the plan's
\* base64_image, the turn's screenshot path, or no request at all
\* _run_segmentation and sam_request: `if image_path: ... elif base64_image:
\* ... else: return {"error": "No image provided"}`
SamRequest(imgPath, b64Img) ==
    IF imgPath # "none" THEN imgPath
    ELSE IF b64Img # "none" THEN b64Img
    ELSE "none"

\* input_data.get("image_path") and input_data.get("base64_image")
PlanPath(input) == IF input \in {"path", "both"} THEN "plan path" ELSE "none"
PlanInline(input) == IF input \in {"inline", "both"} THEN "plan base64" ELSE "none"

\* ToolExecutor._execute_plan: img_path = call.input.get("image_path") or
\* screenshot_path
ExecutorImage(input, hasScreenshot) ==
    LET img_path == IF PlanPath(input) # "none" THEN PlanPath(input)
                    ELSE IF hasScreenshot THEN "screenshot" ELSE "none"
    IN SamRequest(img_path, PlanInline(input))

\* _execute_tool_calls_async: `if not img_path and not b64_img and
\* screenshot_path: img_path = str(screenshot_path.resolve())`
ValidatorImage(input, hasScreenshot) ==
    LET img_path == IF PlanPath(input) = "none" /\ PlanInline(input) = "none"
                       /\ hasScreenshot
                    THEN "screenshot" ELSE PlanPath(input)
    IN SamRequest(img_path, PlanInline(input))

SegUnchanged ==
    UNCHANGED <<coreVars, ttsVars, camVars, recVars, exeVars, planVars, pcmVars, stopVars,
                uiVars, uiCallVars, directVars>>

\* a plan of segmentation calls and a turn context reach both dispatchers
SegPlan(calls, hasScreenshot) ==
    /\ seg.st = "none"
    /\ seg' = [NoSegRun EXCEPT !.st = "dispatch", !.calls = calls,
                               !.screenshot = hasScreenshot]
    /\ SegUnchanged

\* _execute_plan creates the task of its next call
SegExecutorCall ==
    /\ seg.st = "dispatch"
    /\ Len(seg.executor) < Len(seg.calls)
    /\ seg' = [seg EXCEPT !.executor =
                 Append(@, ExecutorImage(seg.calls[Len(@) + 1], seg.screenshot))]
    /\ SegUnchanged

\* _execute_tool_calls_async creates the task of its next call
SegValidatorCall ==
    /\ seg.st = "dispatch"
    /\ Len(seg.validator) < Len(seg.calls)
    /\ seg' = [seg EXCEPT !.validator =
                 Append(@, ValidatorImage(seg.calls[Len(@) + 1], seg.screenshot))]
    /\ SegUnchanged

NextSeg ==
    \/ \E calls \in SeqsUpTo(ImageInputs, MaxCalls), shot \in BOOLEAN : SegPlan(calls, shot)
    \/ SegExecutorCall
    \/ SegValidatorCall

SpecSeg == Init /\ [][NextSeg]_vars

\* C39: for every segmentation call of the plan the two dispatchers send the
\* same image source: the plan's image_path if it has one, else the plan's
\* base64_image, else the turn's screenshot path if there is one.
C39_SameImageSource ==
    \A i \in DOMAIN seg.calls :
        LET claimed == IF PlanPath(seg.calls[i]) # "none" THEN "plan path"
                       ELSE IF PlanInline(seg.calls[i]) # "none" THEN "plan base64"
                       ELSE IF seg.screenshot THEN "screenshot"
                       ELSE "none"
        IN /\ i \in DOMAIN seg.executor => seg.executor[i] = claimed
           /\ i \in DOMAIN seg.validator => seg.validator[i] = claimed

(* ------------------ the conversation of main.py: SpecCli ---------------- *)
\* the entries after the optional system entry
Dialogue(conv) ==
    IF conv # <<>> /\ conv[1].role = "system" THEN Tail(conv) ELSE conv

\* C40: whenever the command-line loop is at the start of a turn, the
\* conversation after its optional system entry is user and assistant
\* entries in strict alternation, ending with an assistant entry.
C40_CliConversationAlternates ==
    cli_pc = "record"
       => /\ Len(Dialogue(conversation)) % 2 = 0
          /\ \A i \in DOMAIN Dialogue(conversation) :
                Dialogue(conversation)[i].role
                   = (IF i % 2 = 1 THEN "user" ELSE "assistant")

====
